---- MODULE Spec2Model ----
(***************************************************************************)
(* Novus Academica: the LLM orchestration pipeline of                      *)
(* src/services/geminiService.ts and the session handlers of src/App.tsx.  *)
(*                                                                         *)
(* The repository holds two versions of the program.  Version 1 is the     *)
(* earlier one (geminiService.ts lines 1-245, src/unnamed/part_003);       *)
(* version 2 is the later one (geminiService.ts lines 246-551,             *)
(* src/App.tsx).  The variable "version" selects the one a behaviour runs. *)
(*                                                                         *)
(* Strings whose characters matter (error messages, which are lower-cased  *)
(* and searched for markers) are sequences of one-character strings.       *)
(***************************************************************************)
EXTENDS Integers, Sequences, FiniteSets, TLC

VARIABLES
    version,   \* 1 or 2: which version of the program runs
    gov,       \* the frame of the callWithRetry call in progress
    trace,     \* provider calls, delays and warnings, in the order they happen
    state,     \* App: the ResearchState held by useState
    an,        \* the startResearch call in progress
    analyzing, \* App: the analyzing flag
    errorMsg,  \* App: the error message shown
    lastAlert, \* the text of the last alert() shown
    tasks,     \* the handleGenerateSection calls awaiting generateSectionContent
    issued,    \* how many provider calls the last step of a session made
    chat,      \* the handleChatSubmit call awaiting consultCPO
    tools,     \* the SectionEditor tool calls awaiting the transformed text
    saved,     \* localStorage: the saved session, if any
    uploads    \* the handleFileUpload calls whose files are being read

vars == <<version, gov, trace, state, an, analyzing, errorMsg, lastAlert,
          tasks, issued, chat, tools, saved, uploads>>

Versions == {1, 2}

----------------------------------------------------------------------------
(* Bounds of the model *)

\* largest "retries" argument callWithRetry is started with
MaxRetries == 3

----------------------------------------------------------------------------
(* Strings *)

UpperCase == <<"A","B","C","D","E","F","G","H","I","J","K","L","M",
               "N","O","P","Q","R","S","T","U","V","W","X","Y","Z">>

LowerCase == <<"a","b","c","d","e","f","g","h","i","j","k","l","m",
               "n","o","p","q","r","s","t","u","v","w","x","y","z">>

\* String.prototype.toLowerCase on one character
ToLowerChar(c) ==
    IF \E i \in 1..Len(UpperCase) : UpperCase[i] = c
    THEN LowerCase[CHOOSE i \in 1..Len(UpperCase) : UpperCase[i] = c]
    ELSE c

\* String.prototype.toLowerCase
ToLowerCase(s) == [i \in 1..Len(s) |-> ToLowerChar(s[i])]

\* String.prototype.includes
Includes(s, sub) ==
    \E i \in 1..(Len(s) - Len(sub) + 1) : SubSeq(s, i, i + Len(sub) - 1) = sub

Marker429 == <<"4","2","9">>
Marker503 == <<"5","0","3">>
MarkerQuota == <<"q","u","o","t","a">>
MarkerResourceExhausted ==
    <<"r","e","s","o","u","r","c","e"," ","e","x","h","a","u","s","t","e","d">>
MarkerRateLimit == <<"r","a","t","e"," ","l","i","m","i","t">>

\* the messages of the errors the provider call is made to fail with
MsgHttp429 == <<"H","T","T","P"," ","4","2","9">>
MsgHttp503 == <<"5","0","3"," ","b","u","s","y">>
MsgQuota == <<"Q","u","o","t","a"," ","h","i","t">>
MsgResourceExhausted ==
    <<"R","E","S","O","U","R","C","E"," ","E","X","H","A","U","S","T","E","D">>
MsgRateLimit == <<"R","a","t","e"," ","L","i","m","i","t">>
MsgBadKey == <<"b","a","d"," ","k","e","y">>
MsgNone == <<>>

MsgUnexpectedEnd ==
    <<"U","n","e","x","p","e","c","t","e","d"," ","e","n","d">>

----------------------------------------------------------------------------
(* Provider responses and JSON *)

\* the value of a property an object does not have
Undefined == "undefined"

\* A response text is a sequence of tokens.  A structured response is the
\* token sequence of a JSON object, { key : value , key : value ... },
\* whose values are single tokens.
JsonPunctuation == {"{", "}", ":", ","}

JsonObjectText(pairs) ==
    <<"{">> \o
    [i \in 1..(IF Len(pairs) = 0 THEN 0 ELSE 4 * Len(pairs) - 1) |->
        CASE i % 4 = 1 -> pairs[(i + 3) \div 4][1]
          [] i % 4 = 2 -> ":"
          [] i % 4 = 3 -> pairs[(i + 1) \div 4][2]
          [] OTHER     -> ","] \o
    <<"}">>

\* whether JSON.parse accepts the text as an object
JsonWellFormed(text) ==
    /\ Len(text) >= 2
    /\ text[1] = "{"
    /\ text[Len(text)] = "}"
    /\ LET inner == SubSeq(text, 2, Len(text) - 1)
       IN  /\ Len(inner) = 0 \/ (Len(inner) + 1) % 4 = 0
           /\ \A i \in 1..Len(inner) :
                CASE i % 4 = 2 -> inner[i] = ":"
                  [] i % 4 = 0 -> inner[i] = ","
                  [] OTHER     -> inner[i] \notin JsonPunctuation

\* the object JSON.parse returns for a well-formed text: a later duplicate
\* key replaces an earlier one
JsonObject(text) ==
    LET inner == SubSeq(text, 2, Len(text) - 1)
        n     == (Len(inner) + 1) \div 4
        keys  == {inner[4 * j - 3] : j \in 1..n}
        last(k) == CHOOSE j \in 1..n :
                      /\ inner[4 * j - 3] = k
                      /\ \A h \in 1..n : inner[4 * h - 3] = k => h <= j
    IN  [k \in keys |-> inner[4 * last(k) - 1]]

\* JSON.parse: the object, or the SyntaxError it throws
JsonParse(text) ==
    IF JsonWellFormed(text)
    THEN [ok |-> TRUE, value |-> JsonObject(text)]
    ELSE [ok |-> FALSE, error |-> [message |-> MsgUnexpectedEnd]]

\* obj.key
Prop(obj, key) == IF key \in DOMAIN obj THEN obj[key] ELSE Undefined

AnalysisPairsA ==
    << <<"title", "T1">>, <<"target_journal", "J1">>, <<"gap", "G1">>,
       <<"novelty", "N1">>, <<"methodology_plan", "M1">>,
       <<"expected_results", "E1">>, <<"checklist", "{checks1}">>,
       <<"references", "[R1]">> >>

AnalysisPairsB ==
    << <<"title", "T2">>, <<"target_journal", "J2">>, <<"gap", "G2">>,
       <<"novelty", "N2">>, <<"methodology_plan", "M2">>,
       <<"expected_results", "E2">>, <<"checklist", "{checks2}">> >>

TextAnalysisA == JsonObjectText(AnalysisPairsA)
TextAnalysisB == JsonObjectText(AnalysisPairsB)
\* a response cut off before the closing brace
TextTruncated == SubSeq(TextAnalysisA, 1, 8)
TextEmpty == <<>>
\* what an empty response text is replaced by in version 2
TextEmptyObject == <<"{", "}">>

\* GenerateContentResponse: only its text is read
Response(text) == [text |-> text]

\* how an awaited call settles: fulfilled with a value or rejected with an error
Fulfilled(value) == [ok |-> TRUE, value |-> value]
Rejected(error) == [ok |-> FALSE, error |-> error]

\* an Error with a message, and a thrown value that has none
Error(message) == [message |-> message]
ErrNoMessage == [code |-> "500"]

ErrorMessages ==
    {MsgHttp429, MsgHttp503, MsgQuota, MsgResourceExhausted, MsgRateLimit,
     MsgBadKey, MsgNone}

ProviderErrors == {Error(m) : m \in ErrorMessages} \cup {ErrNoMessage}

----------------------------------------------------------------------------
(* The log of what the program does to the outside *)

NoOutcome == [none |-> TRUE]

\* A provider call, as the closure handed to callWithRetry or called
\* directly: the place it is made from (who), the model it asks (tier: "pro"
\* is gemini-3-pro-preview, "flash" is gemini-2.5-flash), the document it is
\* about (0: none) and the parts of its contents.
ProviderCall(who, tier, doc, parts) ==
    [who |-> who, tier |-> tier, doc |-> doc, parts |-> parts]

\* the operation of SpecRetry: any asynchronous function
AnyOperation == ProviderCall("fn", "none", 0, <<>>)

\* ev: "enter" (callWithRetry is called; out holds its arguments),
\*     "issue" (a call is started), "settle" (it returned or failed),
\*     "delay" (a timer of ms milliseconds ran out), "warn" (console.warn)
Event(ev, fn, ms, out) == [ev |-> ev, fn |-> fn, ms |-> ms, out |-> out]

Enter(fn, retries, delayMs) ==
    Event("enter", fn, 0, [retries |-> retries, delayMs |-> delayMs])
Issue(fn) == Event("issue", fn, 0, NoOutcome)
Settle(fn, out) == Event("settle", fn, 0, out)
Delay(who, ms) == Event("delay", ProviderCall(who, "none", 0, <<>>), ms, NoOutcome)
Warn(who) == Event("warn", ProviderCall(who, "none", 0, <<>>), 0, NoOutcome)

Min(S) == CHOOSE x \in S : \A y \in S : x <= y
Max(S) == CHOOSE x \in S : \A y \in S : y <= x

\* the positions of the log holding an event of kind ev
EventsAt(log, ev) == {i \in 1..Len(log) : log[i].ev = ev}

RECURSIVE SumMs(_, _)
\* the milliseconds of the first n events of the log, added up
SumMs(log, n) == IF n = 0 THEN 0 ELSE log[n].ms + SumMs(log, n - 1)

----------------------------------------------------------------------------
(* Retry Governor: callWithRetry *)

DefaultRetries == 3
DefaultDelayMs == 2000

\* error.message?.toLowerCase() || ""
LoweredMessage(error) ==
    IF "message" \in DOMAIN error THEN ToLowerCase(error.message) ELSE <<>>

\* version 1, geminiService.ts lines 31-35
IsRetryableV1(msg) ==
    \/ Includes(msg, Marker429)
    \/ Includes(msg, Marker503)
    \/ Includes(msg, MarkerQuota)
    \/ Includes(msg, MarkerResourceExhausted)
    \/ Includes(msg, MarkerRateLimit)

\* version 2, geminiService.ts line 275
IsRetryableV2(msg) ==
    \/ Includes(msg, Marker429)
    \/ Includes(msg, Marker503)
    \/ Includes(msg, MarkerQuota)
    \/ Includes(msg, MarkerResourceExhausted)

IsRetryable(ver, error) ==
    IF ver = 1 THEN IsRetryableV1(LoweredMessage(error))
               ELSE IsRetryableV2(LoweredMessage(error))

\* The frame of one callWithRetry(fn, retries, delayMs) and of the calls it
\* makes to itself.  st: "pending" (fn was called and is awaited), "waiting"
\* (the timer is awaited), "returned", "thrown".  Entering callWithRetry
\* calls fn at once.
CallWithRetry(fn, retries, delayMs) ==
    [st |-> "pending", fn |-> fn, retries |-> retries, delayMs |-> delayMs,
     out |-> NoOutcome]

\* what the log gains when callWithRetry is entered
EnterEvents(fn, retries, delayMs) == <<Enter(fn, retries, delayMs), Issue(fn)>>

GovIdle == [st |-> "idle", fn |-> AnyOperation, retries |-> 0, delayMs |-> 0,
            out |-> NoOutcome]

\* GovSettle as it would be if every failure were retried, transient or not
GovSettleRetryAny(ver, g, o) ==
    IF o.ok
    THEN [g EXCEPT !.st = "returned", !.out = o]
    ELSE IF g.retries > 0
         THEN [g EXCEPT !.st = "waiting"]
         ELSE [g EXCEPT !.st = "thrown", !.out = o]

\* the awaited fn() settles with outcome o
GovSettle(ver, g, o) ==
    IF o.ok
    THEN [g EXCEPT !.st = "returned", !.out = o]
    ELSE IF IsRetryable(ver, o.error) /\ g.retries > 0
         THEN [g EXCEPT !.st = "waiting"]
         ELSE [g EXCEPT !.st = "thrown", !.out = o]

\* GovResume as it would be if the retries left were not counted down
GovResumeNoCountdown(g) == [g EXCEPT !.st = "pending", !.delayMs = @ * 2]

\* GovResume as it would be if the delay grew by a fixed step
GovResumeLinear(g) ==
    [g EXCEPT !.st = "pending", !.retries = @ - 1, !.delayMs = @ + DefaultDelayMs]

\* GovResume as it would be if the delay were not doubled
GovResumeNoBackoff(g) == [g EXCEPT !.st = "pending", !.retries = @ - 1]

\* the timer ran out: return callWithRetry(fn, retries - 1, delayMs * 2),
\* which calls fn again
GovResume(g) ==
    [g EXCEPT !.st = "pending", !.retries = @ - 1, !.delayMs = @ * 2]

\* what the log gains when the timer runs out
ResumeEvents(g) == <<Delay("retry", g.delayMs), Issue(g.fn)>>

GovDone(g) == g.st \in {"returned", "thrown"}

\* what the log gains when the awaited fn() settles with outcome o
SettleEvents(ver, g, o) ==
    IF ~o.ok /\ IsRetryable(ver, o.error) /\ g.retries > 0
    THEN <<Settle(g.fn, o), Warn("retry")>>
    ELSE <<Settle(g.fn, o)>>

----------------------------------------------------------------------------
(* Uploaded files and the Attachment Preparer *)

\* String.prototype.endsWith
EndsWith(s, suffix) ==
    /\ Len(suffix) <= Len(s)
    /\ SubSeq(s, Len(s) - Len(suffix) + 1, Len(s)) = suffix

SuffixTxt == <<".","t","x","t">>
SuffixMd == <<".","m","d">>
SuffixTex == <<".","t","e","x">>
SuffixLatex == <<".","l","a","t","e","x">>
SuffixPdf == <<".","p","d","f">>
WordPdf == <<"p","d","f">>
WordText == <<"t","e","x","t">>
TypePdf ==
    <<"a","p","p","l","i","c","a","t","i","o","n","/","p","d","f">>
TypePlain == <<"t","e","x","t","/","p","l","a","i","n">>
TypeOctet ==
    <<"a","p","p","l","i","c","a","t","i","o","n","/",
      "o","c","t","e","t","-","s","t","r","e","a","m">>
NamePdf == <<"a",".","p","d","f">>
NameTxt == <<"t",".","t","x","t">>
NameUpperPdf == <<"S",".","P","D","F">>

\* The data of a file is the data URL FileReader.readAsDataURL gives, as
\* tokens: "data:", the media type, ";base64," and the base64 payload, one
\* token for each encoded character.
DataUrl(payload) == <<"data:", "mime", ";base64,">> \o payload

\* b64.replace(/^data:.+;base64,/, ''): the longest such prefix is removed
CleanBase64(b64) ==
    LET ends == {j \in 3..Len(b64) : b64[j] = ";base64,"}
    IN  IF Len(b64) >= 3 /\ b64[1] = "data:" /\ ends # {}
        THEN SubSeq(b64, Max(ends) + 1, Len(b64))
        ELSE b64

\* the base64 encodings of the characters A to E
Base64Units == <<"QQ==", "Qg==", "Qw==", "RA==", "RQ==">>
Base64Chars == <<"A", "B", "C", "D", "E">>

Base64Valid(unit) == \E i \in 1..Len(Base64Units) : Base64Units[i] = unit

\* decodeBase64Text as it would be if a unit that is no base64 were decoded
\* to a replacement character in place of the failure being caught
DecodeBase64TextLossy(b64) ==
    [i \in 1..Len(b64) |->
        IF Base64Valid(b64[i])
        THEN Base64Chars[CHOOSE k \in 1..Len(Base64Units) : Base64Units[k] = b64[i]]
        ELSE "?"]

\* decodeBase64Text: the decoded text, or "" when atob throws
DecodeBase64Text(b64) ==
    IF \A i \in 1..Len(b64) : Base64Valid(b64[i])
    THEN [i \in 1..Len(b64) |->
            Base64Chars[CHOOSE k \in 1..Len(Base64Units) : Base64Units[k] = b64[i]]]
    ELSE <<>>

UploadedFile(name, type, data) == [name |-> name, type |-> type, data |-> data]

\* the part of a request that carries a PDF
InlinePart(data) ==
    [kind |-> "inlineData", mimeType |-> "application/pdf", name |-> <<>>,
     body |-> data, summaries |-> <<>>]

\* the text part `[Source Document: ${name}]\n${text}\n---`
SourceTextPart(name, text) ==
    [kind |-> "text", mimeType |-> "", name |-> name, body |-> text,
     summaries |-> <<>>]

\* a text part that holds a prompt
PromptPart(prompt) ==
    [kind |-> "text", mimeType |-> "", name |-> <<>>, body |-> <<prompt>>,
     summaries |-> <<>>]

NoPart == [kind |-> "null"]

\* version 1: the body of the map in prepareFileParts
PrepareFilePartV1(file) ==
    IF Includes(file.type, WordPdf)
    THEN InlinePart(CleanBase64(file.data))
    ELSE IF \/ Includes(file.type, WordText)
            \/ EndsWith(file.name, SuffixTxt)
            \/ EndsWith(file.name, SuffixMd)
         THEN SourceTextPart(file.name, DecodeBase64Text(CleanBase64(file.data)))
         ELSE NoPart

\* version 2: prepareFilePart
PrepareFilePartV2(file) ==
    IF Includes(file.type, WordPdf)
    THEN InlinePart(CleanBase64(file.data))
    ELSE IF \/ Includes(file.type, WordText)
            \/ EndsWith(file.name, SuffixTxt)
            \/ EndsWith(file.name, SuffixMd)
            \/ EndsWith(file.name, SuffixTex)
            \/ EndsWith(file.name, SuffixLatex)
         THEN SourceTextPart(file.name, DecodeBase64Text(CleanBase64(file.data)))
         ELSE NoPart

PrepareFilePart(ver, file) ==
    IF ver = 1 THEN PrepareFilePartV1(file) ELSE PrepareFilePartV2(file)

\* files.map(prepareFilePart).filter(p => p !== null)
PrepareFileParts(ver, files) ==
    SelectSeq([i \in 1..Len(files) |-> PrepareFilePart(ver, files[i])],
              LAMBDA p : p # NoPart)

\* version 1 handleFileUpload: the files that are not skipped
AcceptedByUploadV1(name, type) ==
    ~(type # TypePdf /\ type # TypePlain /\ ~EndsWith(name, SuffixTxt))

\* version 2 handleFileUpload: the filter on the selected files
AcceptedByUploadV2(name, type) ==
    LET lower == ToLowerCase(name)
    IN  \/ EndsWith(lower, SuffixPdf)
        \/ EndsWith(lower, SuffixTxt)
        \/ EndsWith(lower, SuffixMd)
        \/ EndsWith(lower, SuffixTex)
        \/ EndsWith(lower, SuffixLatex)
        \/ Includes(type, WordText)
        \/ Includes(type, WordPdf)

AcceptedByUpload(ver, name, type) ==
    IF ver = 1 THEN AcceptedByUploadV1(name, type)
               ELSE AcceptedByUploadV2(name, type)

\* the files a user picks: a PDF, a plain text file, and a PDF whose name is
\* in upper case and whose type the browser does not know
\* (file.type || 'application/octet-stream')
PickedFiles ==
    { [name |-> NamePdf, type |-> TypePdf],
      [name |-> NameTxt, type |-> TypePlain],
      [name |-> NameUpperPdf, type |-> TypeOctet] }

\* the documents one upload after another can leave in state.files, the
\* i-th holding the i-th payload
RECURSIVE FileListsOfLen(_, _)
FileListsOfLen(ver, n) ==
    IF n = 0 THEN {<<>>}
    ELSE {Append(fs, UploadedFile(f.name, f.type, DataUrl(<<Base64Units[n]>>))) :
            fs \in FileListsOfLen(ver, n - 1),
            f \in {g \in PickedFiles : AcceptedByUpload(ver, g.name, g.type)}}

----------------------------------------------------------------------------
(* The session state of App *)

INITIAL_SECTIONS ==
    <<"Title", "Abstract", "Introduction", "Literature Review", "Methodology",
      "Results", "Discussion", "Conclusion", "References">>

\* One section: title and notes, which nothing changes, are left out.
\* content is a sequence of tokens, '' the empty sequence.
InitialSection(type) ==
    [id |-> type, type |-> type, content |-> <<>>, isGenerating |-> FALSE]

\* useState<ResearchState>({...}): strings are single tokens, '' is "",
\* null is "null" and the empty array of references is "[]"
InitialState ==
    [files |-> <<>>,
     paperTitle |-> "",
     researchGap |-> "",
     noveltyClaim |-> "",
     targetJournal |-> "",
     methodologyPlan |-> "",
     expectedResults |-> "",
     qualityChecklist |-> "null",
     extractedReferences |-> "[]",
     chatHistory |-> <<>>,
     isChatOpen |-> FALSE,
     sections |-> [i \in 1..Len(INITIAL_SECTIONS) |->
                      InitialSection(INITIAL_SECTIONS[i])],
     activeSectionId |-> "Introduction"]

\* a value that counts as false in a condition
Falsy(v) == v \in {"", Undefined, "null"}

\* useState<string | null>(null)
NoErrorMsg == <<>>

Digits == <<"0", "1", "2", "3", "4", "5", "6", "7", "8", "9">>
\* `${n}`
NumToken(n) ==
    IF n < 10 THEN Digits[n + 1]
    ELSE <<"10", "11", "12", "13", "14", "15", "16", "17", "18", "19">>[n - 9]

\* TitleSections as it would be if the retitled section were taken out of the
\* collection and put back at its end
TitleSectionsLast(sections, title) ==
    LET IsTitle(s) == s.type = "Title"
        IsOther(s) == s.type # "Title"
        retitled == [i \in 1..Len(SelectSeq(sections, IsTitle)) |->
                        [SelectSeq(sections, IsTitle)[i] EXCEPT
                            !.content = <<"# ", title>>]]
    IN  SelectSeq(sections, IsOther) \o retitled

\* prev.sections.map(s => s.type === Title ? {...s, content: `# ${title}`} : s)
TitleSections(sections, title) ==
    [i \in 1..Len(sections) |->
        IF sections[i].type = "Title"
        THEN [sections[i] EXCEPT !.content = <<"# ", title>>]
        ELSE sections[i]]

\* version 1 startResearch: the update handed to setState, applied to prev
CommitAnalysisV1(prev, result, files) ==
    [prev EXCEPT
        !.paperTitle = Prop(result, "title"),
        !.researchGap = Prop(result, "gap"),
        !.noveltyClaim = Prop(result, "novelty"),
        !.targetJournal = Prop(result, "target_journal"),
        !.methodologyPlan = Prop(result, "methodology_plan"),
        !.expectedResults = Prop(result, "expected_results"),
        !.qualityChecklist = Prop(result, "checklist"),
        !.sections = TitleSections(prev.sections, Prop(result, "title"))]

\* CommitAnalysisV2 as it would be if a result without references left the
\* list of the earlier run in place
CommitAnalysisV2KeepsReferences(prev, result, files) ==
    [prev EXCEPT
        !.paperTitle = Prop(result, "title"),
        !.researchGap = Prop(result, "gap"),
        !.noveltyClaim = Prop(result, "novelty"),
        !.targetJournal = Prop(result, "target_journal"),
        !.methodologyPlan = Prop(result, "methodology_plan"),
        !.expectedResults = Prop(result, "expected_results"),
        !.qualityChecklist = Prop(result, "checklist"),
        !.extractedReferences =
            IF Falsy(Prop(result, "references")) THEN prev.extractedReferences
            ELSE Prop(result, "references"),
        !.sections = TitleSections(prev.sections, Prop(result, "title")),
        !.chatHistory =
            Append(prev.chatHistory,
                   [role |-> "model",
                    text |-> <<"I have analyzed ", NumToken(Len(files)),
                               " documents. We are targeting ",
                               Prop(result, "target_journal"),
                               ". I identified a gap in ", Prop(result, "gap"),
                               ". Shall we begin drafting?">>]),
        !.isChatOpen = TRUE]

\* CommitAnalysisV2 as it would be if the greeting were appended to the chat
\* log that the handler saw when it was called, no turn yet
CommitAnalysisV2StaleLog(prev, result, files) ==
    [prev EXCEPT
        !.paperTitle = Prop(result, "title"),
        !.researchGap = Prop(result, "gap"),
        !.noveltyClaim = Prop(result, "novelty"),
        !.targetJournal = Prop(result, "target_journal"),
        !.methodologyPlan = Prop(result, "methodology_plan"),
        !.expectedResults = Prop(result, "expected_results"),
        !.qualityChecklist = Prop(result, "checklist"),
        !.extractedReferences =
            IF Falsy(Prop(result, "references")) THEN "[]"
            ELSE Prop(result, "references"),
        !.sections = TitleSections(prev.sections, Prop(result, "title")),
        !.chatHistory =
            <<[role |-> "model",
               text |-> <<"I have analyzed ", NumToken(Len(files)),
                          " documents. We are targeting ",
                          Prop(result, "target_journal"),
                          ". I identified a gap in ", Prop(result, "gap"),
                          ". Shall we begin drafting?">>]>>,
        !.isChatOpen = TRUE]

\* version 2 startResearch: the update handed to setState, applied to prev;
\* files is state.files as the handler saw it when it was called
CommitAnalysisV2(prev, result, files) ==
    [prev EXCEPT
        !.paperTitle = Prop(result, "title"),
        !.researchGap = Prop(result, "gap"),
        !.noveltyClaim = Prop(result, "novelty"),
        !.targetJournal = Prop(result, "target_journal"),
        !.methodologyPlan = Prop(result, "methodology_plan"),
        !.expectedResults = Prop(result, "expected_results"),
        !.qualityChecklist = Prop(result, "checklist"),
        !.extractedReferences =
            IF Falsy(Prop(result, "references")) THEN "[]"
            ELSE Prop(result, "references"),
        !.sections = TitleSections(prev.sections, Prop(result, "title")),
        !.chatHistory =
            Append(prev.chatHistory,
                   [role |-> "model",
                    text |-> <<"I have analyzed ", NumToken(Len(files)),
                               " documents. We are targeting ",
                               Prop(result, "target_journal"),
                               ". I identified a gap in ", Prop(result, "gap"),
                               ". Shall we begin drafting?">>]),
        !.isChatOpen = TRUE]

CommitAnalysis(ver, prev, result, files) ==
    IF ver = 1 THEN CommitAnalysisV1(prev, result, files)
               ELSE CommitAnalysisV2(prev, result, files)

----------------------------------------------------------------------------
(* analyzeFilesForNovelty and startResearch *)

MsgAnalysisFailedAfterRetries ==
    <<"A","n","a","l","y","s","i","s"," ","f","a","i","l","e","d"," ",
      "a","f","t","e","r"," ","r","e","t","r","i","e","s",":"," ">>
MsgAnalysisFailed ==
    <<"A","n","a","l","y","s","i","s"," ","f","a","i","l","e","d",":"," ">>
MsgEmptyResponse ==
    <<"E","m","p","t","y"," ","r","e","s","p","o","n","s","e"," ",
      "f","r","o","m"," ","A","I">>
MsgFailedToAnalyze ==
    <<"F","a","i","l","e","d"," ","t","o"," ","a","n","a","l","y","z","e"," ",
      "d","o","c","u","m","e","n","t","s",".">>
MsgNoValidFiles ==
    <<"N","o"," ","v","a","l","i","d"," ","P","D","F"," ","o","r"," ",
      "T","e","x","t"," ","f","i","l","e","s"," ","f","o","u","n","d"," ",
      "t","o"," ","a","n","a","l","y","z","e",".">>
MsgUnknownError == <<"U","n","k","n","o","w","n"," ","e","r","r","o","r",".">>
MsgUndefined == <<"u","n","d","e","f","i","n","e","d">>

\* `${error.message}`
MessageText(error) ==
    IF "message" \in DOMAIN error THEN error.message ELSE MsgUndefined

\* error.message || fallback
MessageOr(error, fallback) ==
    IF "message" \in DOMAIN error /\ error.message # <<>>
    THEN error.message ELSE fallback

\* files.length > 2 selects map-reduce
MapReduceThreshold == 2
\* the pause after each summary
SummaryPauseMs == 500

\* The startResearch call in progress.  pc: "idle" (none), "summarizing"
\* (the provider call of summarizeFile for document i is awaited), "pause"
\* (the timer after document i is awaited), "analysis" (callWithRetry is
\* awaited), "done".  files is state.files as the handler saw it; result is
\* how analyzeFilesForNovelty settled.
AnalysisIdle ==
    [pc |-> "idle", files |-> <<>>, i |-> 0, summaries |-> <<>>,
     parts |-> <<>>, result |-> NoOutcome]

\* `[Summary of ${file.name}]:\n${response.text}\n---\n`, and "" for none
Summary(name, text) == [name |-> name, text |-> text]
NoSummary == [name |-> <<>>, text |-> <<>>]

\* the part holding "Here are summaries ...:\n" + summaries.join("\n")
SummariesPart(summaries) ==
    [kind |-> "text", mimeType |-> "", name |-> <<>>,
     body |-> <<"Here are summaries of the provided source materials:">>,
     summaries |-> summaries]

SummarizeCall(file, i) ==
    ProviderCall("summarize", "flash", i,
                 <<PrepareFilePartV2(file), PromptPart("summarize")>>)

AnalysisCall(tier, parts) ==
    ProviderCall("analysis", tier, 0, parts \o <<PromptPart("analysis")>>)

\* SummarizeEnter as it would be if summarizeFile called the provider also
\* for a document that has no part
SummarizeEnterAlwaysCalls(a, i) == [a EXCEPT !.pc = "summarizing", !.i = i]

\* The loop of analyzeFilesForNovelty reaches document i: summarizeFile
\* either returns "" at once, and the pause is awaited, or calls the
\* provider.  The new value of an, and what the log gains.
SummarizeEnter(a, i) ==
    IF PrepareFilePartV2(a.files[i]) = NoPart
    THEN [a EXCEPT !.pc = "pause", !.i = i,
                   !.summaries = Append(a.summaries, NoSummary)]
    ELSE [a EXCEPT !.pc = "summarizing", !.i = i]

SummarizeEnterEvents(a, i) ==
    IF SummarizeEnter(a, i).pc = "summarizing"
    THEN <<Issue(SummarizeCall(a.files[i], i))>>
    ELSE <<>>

\* SummarizeSettled as it would be if summarizeFile let the failure of its
\* provider call through
SummarizeSettledThrows(a, o) ==
    IF o.ok
    THEN [a EXCEPT !.pc = "pause",
                   !.summaries = Append(a.summaries,
                                        Summary(a.files[a.i].name, o.value.text))]
    ELSE [a EXCEPT !.pc = "done", !.result = o]

\* the awaited provider call of summarizeFile settles with outcome o
SummarizeSettled(a, o) ==
    [a EXCEPT !.pc = "pause",
              !.summaries =
                  Append(a.summaries,
                         IF o.ok THEN Summary(a.files[a.i].name, o.value.text)
                         ELSE NoSummary)]

SummarizeSettledEvents(a, o) ==
    IF o.ok THEN <<Settle(SummarizeCall(a.files[a.i], a.i), o)>>
    ELSE <<Settle(SummarizeCall(a.files[a.i], a.i), o), Warn("summarize")>>

\* ProcessingParts as it would be with the comparison off by one
ProcessingPartsOffByOne(files, summaries) ==
    IF Len(files) >= MapReduceThreshold
    THEN <<SummariesPart(summaries)>>
    ELSE PrepareFileParts(2, files)

\* version 2: the parts of the analysis request
ProcessingParts(files, summaries) ==
    IF Len(files) > MapReduceThreshold
    THEN <<SummariesPart(summaries)>>
    ELSE PrepareFileParts(2, files)

\* version 1: what the try block gives once callWithRetry is done
TryBodyV1(g) ==
    IF g.st = "thrown" THEN Rejected(g.out.error)
    ELSE IF g.out.value.text = <<>> THEN Rejected(Error(MsgEmptyResponse))
    ELSE JsonParse(g.out.value.text)

\* version 2: what either try block gives once callWithRetry is done:
\* JSON.parse(response.text || "{}")
TryBodyV2(g) ==
    IF g.st = "thrown" THEN Rejected(g.out.error)
    ELSE JsonParse(IF g.out.value.text = <<>> THEN TextEmptyObject
                   ELSE g.out.value.text)

\* version 1: how analyzeFilesForNovelty settles once callWithRetry is done
AnalysisResultV1(g) ==
    IF TryBodyV1(g).ok THEN TryBodyV1(g)
    ELSE Rejected(Error(MessageOr(TryBodyV1(g).error, MsgFailedToAnalyze)))

\* version 2: whether the fallback tier is tried once callWithRetry is done
FallsBack(g) == g.fn.tier = "pro" /\ ~TryBodyV2(g).ok

\* FallbackEvents as it would be without the console.warn
FallbackEventsNoWarn(parts) ==
    EnterEvents(ProviderCall("analysis", "flash", 0, parts \o <<PromptPart("analysis")>>),
                DefaultRetries, DefaultDelayMs)

\* version 2: what the log gains when the catch block falls back
FallbackEvents(parts) ==
    <<Warn("fallback")>> \o
    EnterEvents(AnalysisCall("flash", parts), DefaultRetries, DefaultDelayMs)

\* AnalysisResultV2 as it would be if the last error were thrown as it is
AnalysisResultV2Raw(g) ==
    IF TryBodyV2(g).ok THEN TryBodyV2(g) ELSE Rejected(TryBodyV2(g).error)

\* version 2: how analyzeFilesForNovelty settles once callWithRetry is done
\* and no fallback follows
AnalysisResultV2(g) ==
    IF TryBodyV2(g).ok THEN TryBodyV2(g)
    ELSE Rejected(Error(MsgAnalysisFailedAfterRetries \o
                        MessageText(TryBodyV2(g).error)))

AnalysisResultOf(ver, g) ==
    IF ver = 1 THEN AnalysisResultV1(g) ELSE AnalysisResultV2(g)

\* startResearch after the await: the message setErrorMsg is given
ErrorMsgShown(ver, error) ==
    IF ver = 1 THEN MsgAnalysisFailed \o MessageOr(error, MsgUnknownError)
               ELSE MsgAnalysisFailed \o MessageText(error)

\* no handleChatSubmit call is awaiting consultCPO (isChatting is false)
ChatIdle == [pc |-> "idle", gov |-> GovIdle]

----------------------------------------------------------------------------
(* SpecRetry: callWithRetry alone, on an operation that settles any way *)

\* the delayMs arguments callWithRetry is started with
InitialDelays == {DefaultDelayMs, 500}

RetryValues == {Response(TextAnalysisA), Response(TextEmpty)}

RetryOutcomes ==
    {Fulfilled(v) : v \in RetryValues} \cup {Rejected(e) : e \in ProviderErrors}

InitRetry ==
    /\ version \in Versions
    /\ gov = GovIdle
    /\ trace = <<>>
    /\ state = InitialState
    /\ an = AnalysisIdle
    /\ analyzing = FALSE
    /\ errorMsg = NoErrorMsg
    /\ lastAlert = ""
    /\ tasks = <<>>
    /\ issued = 0
    /\ chat = ChatIdle
    /\ tools = <<>>
    /\ saved = <<>>
    /\ uploads = <<>>

\* callWithRetry(fn, r, d) is called
RetryStart ==
    /\ gov.st = "idle"
    /\ \E r \in 0..MaxRetries, d \in InitialDelays :
          /\ gov' = CallWithRetry(AnyOperation, r, d)
          /\ trace' = trace \o EnterEvents(AnyOperation, r, d)
    /\ UNCHANGED <<uploads, version, state, an, analyzing, errorMsg, lastAlert, tasks, issued,
                   chat, tools, saved>>

\* the awaited fn() returns or fails
RetrySettle ==
    /\ gov.st = "pending"
    /\ \E o \in RetryOutcomes :
          /\ gov' = GovSettle(version, gov, o)
          /\ trace' = trace \o SettleEvents(version, gov, o)
    /\ UNCHANGED <<uploads, version, state, an, analyzing, errorMsg, lastAlert, tasks, issued,
                   chat, tools, saved>>

\* the awaited timer runs out
RetryDelayElapsed ==
    /\ gov.st = "waiting"
    /\ gov' = GovResume(gov)
    /\ trace' = trace \o ResumeEvents(gov)
    /\ UNCHANGED <<uploads, version, state, an, analyzing, errorMsg, lastAlert, tasks, issued,
                   chat, tools, saved>>

NextRetry == RetryStart \/ RetrySettle \/ RetryDelayElapsed

SpecRetry == InitRetry /\ [][NextRetry]_vars

----------------------------------------------------------------------------
(* SpecAnalysis: one startResearch, from the documents of a session *)

\* most documents in the session
MaxFiles == 3

AnalysisOutcomes ==
    {Fulfilled(Response(t)) : t \in {TextAnalysisA, TextEmpty, TextTruncated}}
    \cup {Rejected(Error(m)) : m \in {MsgHttp429, MsgBadKey}}

SummaryOutcomes ==
    {Fulfilled(Response(<<"summary">>)), Rejected(Error(MsgHttp429))}

InitAnalysis ==
    /\ version \in Versions
    /\ gov = GovIdle
    /\ trace = <<>>
    /\ \E n \in 0..MaxFiles : \E fs \in FileListsOfLen(version, n) :
          state = [InitialState EXCEPT !.files = fs]
    /\ an = AnalysisIdle
    /\ analyzing = FALSE
    /\ errorMsg = NoErrorMsg
    /\ lastAlert = ""
    /\ tasks = <<>>
    /\ issued = 0
    /\ chat = ChatIdle
    /\ tools = <<>>
    /\ saved = <<>>
    /\ uploads = <<>>

\* state.files.every(f => f.data && f.data.length > 0)
HasData(files) == \A i \in 1..Len(files) : Len(files[i].data) > 0

\* startResearch up to setAnalyzing(true): the text of the alert it returns
\* with, or "pass"
ResearchGuard(ver, files) ==
    IF Len(files) = 0
    THEN IF ver = 1 THEN "Please upload research materials (PDF/TXT) first."
                    ELSE "Upload files first."
    ELSE IF ver = 1 /\ ~HasData(files)
    THEN "File data is missing. Please re-upload source files."
    ELSE "pass"

\* analyzeFilesForNovelty(files) up to the first await of callWithRetry
BeginAnalysisCall(parts) ==
    /\ gov' = CallWithRetry(AnalysisCall("pro", parts), DefaultRetries, DefaultDelayMs)
    /\ trace' = trace \o EnterEvents(AnalysisCall("pro", parts),
                                     DefaultRetries, DefaultDelayMs)
    /\ an' = [an EXCEPT !.pc = "analysis", !.files = state.files, !.parts = parts]

\* startResearch is called (the button is disabled while analyzing)
StartResearch ==
    /\ an.pc = "idle"
    /\ ~analyzing
    /\ IF ResearchGuard(version, state.files) # "pass"
       THEN /\ lastAlert' = ResearchGuard(version, state.files)
            /\ UNCHANGED <<gov, trace, an, analyzing, errorMsg>>
       ELSE IF version = 1 /\ PrepareFileParts(1, state.files) = <<>>
       THEN \* analyzeFilesForNovelty throws before any call
            /\ an' = [an EXCEPT !.pc = "done", !.files = state.files,
                                !.result = Rejected(Error(MsgNoValidFiles))]
            /\ errorMsg' = ErrorMsgShown(1, Error(MsgNoValidFiles))
            /\ analyzing' = FALSE
            /\ UNCHANGED <<gov, trace, lastAlert>>
       ELSE IF version = 1
       THEN /\ BeginAnalysisCall(PrepareFileParts(1, state.files))
            /\ analyzing' = TRUE
            /\ errorMsg' = NoErrorMsg
            /\ UNCHANGED lastAlert
       ELSE IF Len(state.files) > MapReduceThreshold
       THEN /\ an' = SummarizeEnter([an EXCEPT !.files = state.files], 1)
            /\ trace' = trace \o
                  SummarizeEnterEvents([an EXCEPT !.files = state.files], 1)
            /\ analyzing' = TRUE
            /\ errorMsg' = NoErrorMsg
            /\ UNCHANGED <<gov, lastAlert>>
       ELSE /\ BeginAnalysisCall(ProcessingParts(state.files, <<>>))
            /\ analyzing' = TRUE
            /\ errorMsg' = NoErrorMsg
            /\ UNCHANGED lastAlert
    /\ UNCHANGED <<uploads, version, state, tasks, issued,
                   chat, tools, saved>>

\* SummarizeSettle as it would be if the loop went on to the next document
\* without awaiting the pause
SummarizeSettleNoPause ==
    /\ an.pc = "summarizing"
    /\ \E o \in SummaryOutcomes :
          LET settled == SummarizeSettled(an, o)
          IN  IF an.i < Len(an.files)
              THEN /\ an' = SummarizeEnter(settled, an.i + 1)
                   /\ trace' = trace \o SummarizeSettledEvents(an, o)
                                     \o SummarizeEnterEvents(settled, an.i + 1)
              ELSE /\ an' = settled
                   /\ trace' = trace \o SummarizeSettledEvents(an, o)
    /\ UNCHANGED <<uploads, version, gov, state, analyzing, errorMsg, lastAlert,
                   tasks, issued, chat, tools, saved>>

\* the awaited provider call of summarizeFile returns or fails
SummarizeSettle ==
    /\ an.pc = "summarizing"
    /\ \E o \in SummaryOutcomes :
          /\ an' = SummarizeSettled(an, o)
          /\ trace' = trace \o SummarizeSettledEvents(an, o)
    /\ UNCHANGED <<uploads, version, gov, state, analyzing, errorMsg, lastAlert, tasks, issued,
                   chat, tools, saved>>

\* the pause after a summary runs out: the next document, or the analysis
PauseElapsed ==
    /\ an.pc = "pause"
    /\ IF an.i < Len(an.files)
       THEN /\ an' = SummarizeEnter(an, an.i + 1)
            /\ trace' = trace \o <<Delay("pause", SummaryPauseMs)>>
                              \o SummarizeEnterEvents(an, an.i + 1)
            /\ UNCHANGED gov
       ELSE LET parts == ProcessingParts(an.files, an.summaries)
            IN  /\ gov' = CallWithRetry(AnalysisCall("pro", parts),
                                        DefaultRetries, DefaultDelayMs)
                /\ trace' = trace \o <<Delay("pause", SummaryPauseMs)>>
                                  \o EnterEvents(AnalysisCall("pro", parts),
                                                 DefaultRetries, DefaultDelayMs)
                /\ an' = [an EXCEPT !.pc = "analysis", !.parts = parts]
    /\ UNCHANGED <<uploads, version, state, analyzing, errorMsg, lastAlert, tasks, issued,
                   chat, tools, saved>>

\* AnalysisSettle as it would be if startResearch cleared the analyzing flag
\* after the commit only, and not in a finally block
AnalysisSettleNoFinally ==
    /\ an.pc = "analysis"
    /\ gov.st = "pending"
    /\ \E o \in AnalysisOutcomes :
         LET g == GovSettle(version, gov, o)
             result == AnalysisResultOf(version, g)
         IN  IF ~GovDone(g)
             THEN /\ gov' = g
                  /\ trace' = trace \o SettleEvents(version, gov, o)
                  /\ UNCHANGED <<an, state, analyzing, errorMsg>>
             ELSE IF version = 2 /\ FallsBack(g)
             THEN /\ gov' = CallWithRetry(AnalysisCall("flash", an.parts),
                                          DefaultRetries, DefaultDelayMs)
                  /\ trace' = trace \o SettleEvents(version, gov, o)
                                    \o FallbackEvents(an.parts)
                  /\ UNCHANGED <<an, state, analyzing, errorMsg>>
             ELSE /\ gov' = g
                  /\ trace' = trace \o SettleEvents(version, gov, o)
                  /\ an' = [an EXCEPT !.pc = "done", !.result = result]
                  /\ state' = IF result.ok
                              THEN CommitAnalysis(version, state, result.value, an.files)
                              ELSE state
                  /\ errorMsg' = IF result.ok THEN errorMsg
                                 ELSE ErrorMsgShown(version, result.error)
                  /\ analyzing' = IF result.ok THEN FALSE ELSE analyzing
    /\ UNCHANGED <<uploads, version, lastAlert, tasks, issued,
                   chat, tools, saved>>

\* The awaited provider call of the analysis returns or fails.  callWithRetry
\* waits to retry, or is done; then analyzeFilesForNovelty falls back to the
\* other tier, or settles, and startResearch commits the result or shows the
\* error, and clears the analyzing flag.
AnalysisSettle ==
    /\ an.pc = "analysis"
    /\ gov.st = "pending"
    /\ \E o \in AnalysisOutcomes :
         LET g == GovSettle(version, gov, o)
             result == AnalysisResultOf(version, g)
         IN  IF ~GovDone(g)
             THEN /\ gov' = g
                  /\ trace' = trace \o SettleEvents(version, gov, o)
                  /\ UNCHANGED <<an, state, analyzing, errorMsg>>
             ELSE IF version = 2 /\ FallsBack(g)
             THEN /\ gov' = CallWithRetry(AnalysisCall("flash", an.parts),
                                          DefaultRetries, DefaultDelayMs)
                  /\ trace' = trace \o SettleEvents(version, gov, o)
                                    \o FallbackEvents(an.parts)
                  /\ UNCHANGED <<an, state, analyzing, errorMsg>>
             ELSE /\ gov' = g
                  /\ trace' = trace \o SettleEvents(version, gov, o)
                  /\ an' = [an EXCEPT !.pc = "done", !.result = result]
                  /\ state' = IF result.ok
                              THEN CommitAnalysis(version, state, result.value, an.files)
                              ELSE state
                  /\ errorMsg' = IF result.ok THEN errorMsg
                                 ELSE ErrorMsgShown(version, result.error)
                  /\ analyzing' = FALSE
    /\ UNCHANGED <<uploads, version, lastAlert, tasks, issued,
                   chat, tools, saved>>

\* the awaited timer of callWithRetry runs out
AnalysisDelayElapsed ==
    /\ an.pc = "analysis"
    /\ gov.st = "waiting"
    /\ gov' = GovResume(gov)
    /\ trace' = trace \o ResumeEvents(gov)
    /\ UNCHANGED <<uploads, version, state, an, analyzing, errorMsg, lastAlert, tasks, issued,
                   chat, tools, saved>>

NextAnalysis ==
    \/ StartResearch
    \/ SummarizeSettle
    \/ PauseElapsed
    \/ AnalysisSettle
    \/ AnalysisDelayElapsed

SpecAnalysis == InitAnalysis /\ [][NextAnalysis]_vars

----------------------------------------------------------------------------
(* generateSectionContent and the section handlers of App *)

\* files.slice(0, 3)
DraftFileLimit == 3

\* version 2: filesToPartsLimited(files)
FilesToPartsLimited(files) ==
    PrepareFileParts(2, SubSeq(files, 1, IF Len(files) < DraftFileLimit
                                         THEN Len(files) ELSE DraftFileLimit))

\* the provider call of generateSectionContent: the parts of the documents,
\* then the prompt
DraftCall(ver, files) ==
    ProviderCall("draft", "flash", 0,
                 (IF ver = 1 THEN PrepareFileParts(1, files)
                             ELSE FilesToPartsLimited(files))
                 \o <<PromptPart("draft")>>)

MsgFailed == <<"Failed.">>
MsgFailedToGenerate == <<"Failed to generate content.">>

\* DraftContent as it would be if an empty response text were returned as it is
DraftContentRaw(ver, g) ==
    IF g.st = "returned" THEN g.out.value.text
    ELSE <<"Error: ">> \o MessageText(g.out.error)

\* DraftContent as it would be if a failure left no text
DraftContentNoCatch(ver, g) ==
    IF g.st = "returned" THEN g.out.value.text ELSE <<>>

\* what generateSectionContent returns once callWithRetry is done
DraftContent(ver, g) ==
    IF g.st = "returned"
    THEN IF g.out.value.text # <<>> THEN g.out.value.text
         ELSE IF ver = 1 THEN MsgFailedToGenerate ELSE MsgFailed
    ELSE IF ver = 1
         THEN <<"Error generating content: ">> \o MessageText(g.out.error)
              \o <<". Please try again later.">>
         ELSE <<"Error: ">> \o MessageText(g.out.error)

\* state.sections.find(s => s.id === sectionId)
SectionById(sections, id) ==
    sections[CHOOSE i \in 1..Len(sections) : sections[i].id = id]

\* prev.sections.map(s => s.id === sectionId ? {...s, isGenerating: b} : s)
SetGenerating(sections, id, b) ==
    [i \in 1..Len(sections) |->
        IF sections[i].id = id THEN [sections[i] EXCEPT !.isGenerating = b]
        ELSE sections[i]]

\* SetContent as it would be if the update were not restricted to the section
SetContentEverywhere(sections, id, content) ==
    [i \in 1..Len(sections) |-> [sections[i] EXCEPT !.content = content]]

\* prev.sections.map(s => s.id === sectionId ? {...s, content} : s)
SetContent(sections, id, content) ==
    [i \in 1..Len(sections) |->
        IF sections[i].id = id THEN [sections[i] EXCEPT !.content = content]
        ELSE sections[i]]

\* the tool calls in flight for the section id (isHumanizing, processingTool
\* of its SectionEditor)
ToolsOf(tls, id) == {k \in 1..Len(tls) : tls[k].id = id}

\* GenerateDisabled as it would be if the button were never disabled
GenerateDisabledNever(ver, sections, tls, id) == FALSE

\* the disabled attribute of the generate button of the section id
GenerateDisabled(ver, sections, tls, id) ==
    \/ SectionById(sections, id).isGenerating
    \/ ver = 2 /\ ToolsOf(tls, id) # {}

\* handleGenerateSection without the guard on state.noveltyClaim
GenerateGuardPassesAlways(ver, st) == "pass"

\* handleGenerateSection up to the first setState: the text of the alert it
\* returns with, or "pass"
GenerateGuard(ver, st) ==
    IF Falsy(st.noveltyClaim)
    THEN IF ver = 1 THEN "Run 'Deep Analysis' first." ELSE "Run Analysis first."
    ELSE IF ver = 1 /\ ~HasData(st.files)
    THEN "File data is missing. Re-upload files."
    ELSE "pass"

\* tasks without its k-th element
RemoveAt(seq, k) == SubSeq(seq, 1, k - 1) \o SubSeq(seq, k + 1, Len(seq))

----------------------------------------------------------------------------
(* SpecApp: a session of App: analyses, section drafting, manual edits *)

\* most chat messages after which another analysis is still started
MaxChat == 1

\* the sections the user works on
EditedSections == {"Title", "Introduction"}

\* what the user types into a section
TypedContents == {<<"typed">>}

DraftOutcomes ==
    {Fulfilled(Response(t)) : t \in {<<"draft">>, TextEmpty}}
    \cup {Rejected(Error(MsgHttp429))}

\* callWithRetry of the analysis, done, in every way SpecAnalysis ends it
AnalysisFrames ==
    {[GovIdle EXCEPT !.st = "returned",
                     !.fn = AnalysisCall("flash", <<>>),
                     !.out = Fulfilled(Response(t))] :
        t \in {TextAnalysisA, TextEmpty}}
    \cup {[GovIdle EXCEPT !.st = "thrown",
                          !.fn = AnalysisCall("flash", <<>>),
                          !.out = Rejected(Error(MsgHttp429))]}

InitApp ==
    /\ version \in Versions
    /\ gov = GovIdle
    /\ trace = <<>>
    /\ \E n \in 0..1 : \E fs \in FileListsOfLen(version, n) :
          /\ \A i \in 1..n : fs[i].type = TypePdf
          /\ state = [InitialState EXCEPT !.files = fs]
    /\ an = AnalysisIdle
    /\ analyzing = FALSE
    /\ errorMsg = NoErrorMsg
    /\ lastAlert = ""
    /\ tasks = <<>>
    /\ issued = 0
    /\ chat = ChatIdle
    /\ tools = <<>>
    /\ saved = <<>>
    /\ uploads = <<>>

\* startResearch is called (the button is disabled while analyzing), up to
\* the await of analyzeFilesForNovelty
AppStartResearch ==
    /\ an.pc = "idle"
    /\ ~analyzing
    /\ Len(state.chatHistory) < MaxChat
    /\ IF ResearchGuard(version, state.files) # "pass"
       THEN /\ lastAlert' = ResearchGuard(version, state.files)
            /\ UNCHANGED <<an, analyzing, errorMsg>>
       ELSE /\ an' = [an EXCEPT !.pc = "analysis", !.files = state.files]
            /\ analyzing' = TRUE
            /\ errorMsg' = NoErrorMsg
            /\ UNCHANGED lastAlert
    /\ issued' = 0
    /\ UNCHANGED <<uploads, version, gov, trace, state, tasks,
                   chat, tools, saved>>

\* analyzeFilesForNovelty settles: startResearch commits the result or shows
\* the error, and clears the analyzing flag
AppAnalysisSettle ==
    /\ an.pc = "analysis"
    /\ \E g \in AnalysisFrames :
         LET result ==
                 IF version = 1 /\ PrepareFileParts(1, an.files) = <<>>
                 THEN Rejected(Error(MsgNoValidFiles))
                 ELSE AnalysisResultOf(version, g)
         IN  /\ state' = IF result.ok
                         THEN CommitAnalysis(version, state, result.value, an.files)
                         ELSE state
             /\ errorMsg' = IF result.ok THEN errorMsg
                            ELSE ErrorMsgShown(version, result.error)
    /\ analyzing' = FALSE
    /\ an' = AnalysisIdle
    /\ issued' = 0
    /\ UNCHANGED <<uploads, version, gov, trace, lastAlert, tasks,
                   chat, tools, saved>>

\* handleGenerateSection(id) is called (the button is disabled while the
\* section is generating), up to the await of generateSectionContent
HandleGenerateSection(id) ==
    /\ ~GenerateDisabled(version, state.sections, tools, id)
    /\ IF GenerateGuard(version, state) # "pass"
       THEN /\ lastAlert' = GenerateGuard(version, state)
            /\ issued' = 0
            /\ UNCHANGED <<state, tasks>>
       ELSE /\ state' = [state EXCEPT
                            !.sections = SetGenerating(state.sections, id, TRUE)]
            /\ tasks' = Append(tasks,
                               [id |-> id,
                                gov |-> CallWithRetry(DraftCall(version, state.files),
                                                      DefaultRetries, DefaultDelayMs)])
            /\ issued' = 1
            /\ UNCHANGED lastAlert
    /\ UNCHANGED <<uploads, version, gov, trace, an, analyzing, errorMsg,
                   chat, tools, saved>>

\* The awaited provider call of the k-th drafting task settles as o.
\* callWithRetry waits to retry, or is done; then generateSectionContent
\* returns and handleGenerateSection stores the content.
DraftSettleWith(k, o) ==
    /\ tasks[k].gov.st = "pending"
    /\ LET g == GovSettle(version, tasks[k].gov, o)
       IN  IF ~GovDone(g)
           THEN /\ tasks' = [tasks EXCEPT ![k].gov = g]
                /\ UNCHANGED state
           ELSE /\ tasks' = RemoveAt(tasks, k)
                /\ state' = [state EXCEPT !.sections =
                                SetContent(SetGenerating(state.sections,
                                                         tasks[k].id, FALSE),
                                           tasks[k].id, DraftContent(version, g))]
    /\ issued' = 0
    /\ UNCHANGED <<uploads, version, gov, trace, an, analyzing, errorMsg, lastAlert,
                   chat, tools, saved>>

\* the awaited provider call of the k-th drafting task returns or fails
DraftSettle(k) == \E o \in DraftOutcomes : DraftSettleWith(k, o)

\* the awaited timer of callWithRetry of the k-th drafting task runs out
DraftDelayElapsed(k) ==
    /\ tasks[k].gov.st = "waiting"
    /\ tasks' = [tasks EXCEPT ![k].gov = GovResume(tasks[k].gov)]
    /\ issued' = 1
    /\ UNCHANGED <<uploads, version, gov, trace, state, an, analyzing, errorMsg, lastAlert,
                   chat, tools, saved>>

\* handleUpdateSection(id, content): the user types into the section
HandleUpdateSection(id, content) ==
    /\ state' = [state EXCEPT !.sections = SetContent(state.sections, id, content)]
    /\ issued' = 0
    /\ UNCHANGED <<uploads, version, gov, trace, an, analyzing, errorMsg, lastAlert, tasks,
                   chat, tools, saved>>

NextApp ==
    \/ AppStartResearch
    \/ AppAnalysisSettle
    \/ \E id \in EditedSections : HandleGenerateSection(id)
    \/ \E k \in 1..Len(tasks) : DraftSettle(k)
    \/ \E k \in 1..Len(tasks) : DraftDelayElapsed(k)
    \/ \E id \in EditedSections, c \in TypedContents : HandleUpdateSection(id, c)

SpecApp == InitApp /\ [][NextApp]_vars

----------------------------------------------------------------------------
(* consultCPO and handleChatSubmit (version 2) *)

\* history.slice(-10)
HistoryWindow == 10

\* seq.slice(-n)
LastN(seq, n) ==
    SubSeq(seq, IF Len(seq) > n THEN Len(seq) - n + 1 ELSE 1, Len(seq))

\* LastTurns as it would be with history.slice(0, 10)
LastTurnsFromStart(history) ==
    SubSeq(history, 1, IF Len(history) > HistoryWindow THEN HistoryWindow
                       ELSE Len(history))

LastTurns(history) == LastN(history, HistoryWindow)

\* the provider call of consultCPO: the context, the last turns of the
\* history it was given and the query, in one text
ChatCall(tier, query, history, context) ==
    ProviderCall("chat", tier, 0,
                 <<[kind |-> "text", context |-> context,
                    window |-> LastTurns(history), query |-> query]>>)

\* { title: state.paperTitle, gap: state.researchGap, novelty: state.noveltyClaim }
ChatContext(st) ==
    [title |-> st.paperTitle, gap |-> st.researchGap, novelty |-> st.noveltyClaim]

MsgCannotAnswer == <<"I cannot answer that right now.">>
MsgUnavailable == <<"The CPO is currently unavailable (Quota Exceeded).">>

\* { role, text, timestamp }: the timestamp is left out
ChatMessage(role, text) == [role |-> role, text |-> text]

\* !chatInput.trim()
IsBlank(input) == \A i \in 1..Len(input) : input[i] = " "

\* consultCPO once callWithRetry of the tier c.pc is done: whether the
\* fallback tier is tried
ChatFallsBack(c, g) == c.pc = "pro" /\ g.st = "thrown"

\* ChatReply as it would be if the text of the response were returned as it is
ChatReplyRaw(g) ==
    IF g.st = "returned" THEN g.out.value.text ELSE MsgUnavailable

\* consultCPO once callWithRetry is done and no fallback follows: what it
\* returns
ChatReply(g) ==
    IF g.st = "returned"
    THEN IF g.out.value.text # <<>> THEN g.out.value.text ELSE MsgCannotAnswer
    ELSE MsgUnavailable

\* the turns of the chat log that the user wrote
UserTurns(history) == {i \in 1..Len(history) : history[i].role = "user"}

----------------------------------------------------------------------------
(* SpecChat: a session of App (version 2): analyses and the chat *)

\* most user turns after which another question is still sent
MaxTurns == 2

\* what the user types into the chat input
TypedQueries == {<<" ">>, <<"question">>}

ChatOutcomes ==
    {Fulfilled(Response(t)) : t \in {<<"answer">>, TextEmpty}}
    \cup {Rejected(Error(m)) : m \in {MsgHttp429, MsgBadKey}}

InitChat ==
    /\ version = 2
    /\ gov = GovIdle
    /\ trace = <<>>
    /\ \E fs \in FileListsOfLen(version, 1) :
          /\ fs[1].type = TypePdf
          /\ state = [InitialState EXCEPT !.files = fs]
    /\ an = AnalysisIdle
    /\ analyzing = FALSE
    /\ errorMsg = NoErrorMsg
    /\ lastAlert = ""
    /\ tasks = <<>>
    /\ issued = 0
    /\ chat = ChatIdle
    /\ tools = <<>>
    /\ saved = <<>>
    /\ uploads = <<>>

\* handleChatSubmit is called with chatInput = input (the send button is
\* disabled while isChatting), up to the await of consultCPO
HandleChatSubmit(input) ==
    /\ version = 2
    /\ chat.pc = "idle"
    /\ Cardinality(UserTurns(state.chatHistory)) < MaxTurns
    /\ IF IsBlank(input)
       THEN UNCHANGED <<state, chat, issued>>
       ELSE /\ state' = [state EXCEPT !.chatHistory =
                            Append(state.chatHistory, ChatMessage("user", input))]
            /\ chat' = [pc |-> "pro",
                        gov |-> CallWithRetry(
                                    ChatCall("pro", input, state.chatHistory,
                                             ChatContext(state)),
                                    DefaultRetries, DefaultDelayMs)]
            /\ issued' = 1
    /\ UNCHANGED <<uploads, version, gov, trace, an, analyzing, errorMsg, lastAlert,
                   tasks, tools, saved>>

\* The awaited provider call of consultCPO returns or fails.  callWithRetry
\* waits to retry, or is done; then consultCPO falls back to the other tier,
\* or returns, and handleChatSubmit appends the reply to the chat log.
ChatSettle ==
    /\ chat.pc # "idle"
    /\ chat.gov.st = "pending"
    /\ \E o \in ChatOutcomes :
         LET g == GovSettle(version, chat.gov, o)
         IN  IF ~GovDone(g)
             THEN /\ chat' = [chat EXCEPT !.gov = g]
                  /\ issued' = 0
                  /\ UNCHANGED state
             ELSE IF ChatFallsBack(chat, g)
             THEN /\ chat' = [pc |-> "flash",
                              gov |-> CallWithRetry([g.fn EXCEPT !.tier = "flash"],
                                                    DefaultRetries, DefaultDelayMs)]
                  /\ issued' = 1
                  /\ UNCHANGED state
             ELSE /\ chat' = ChatIdle
                  /\ issued' = 0
                  /\ state' = [state EXCEPT !.chatHistory =
                                  Append(state.chatHistory,
                                         ChatMessage("model", ChatReply(g)))]
    /\ UNCHANGED <<uploads, version, gov, trace, an, analyzing, errorMsg, lastAlert,
                   tasks, tools, saved>>

\* the awaited timer of callWithRetry of consultCPO runs out
ChatDelayElapsed ==
    /\ chat.pc # "idle"
    /\ chat.gov.st = "waiting"
    /\ chat' = [chat EXCEPT !.gov = GovResume(chat.gov)]
    /\ issued' = 1
    /\ UNCHANGED <<uploads, version, gov, trace, state, an, analyzing, errorMsg,
                   lastAlert, tasks, tools, saved>>

NextChat ==
    \/ AppStartResearch
    \/ AppAnalysisSettle
    \/ \E input \in TypedQueries : HandleChatSubmit(input)
    \/ ChatSettle
    \/ ChatDelayElapsed

SpecChat == InitChat /\ [][NextChat]_vars

\* SpecChat where every provider call of consultCPO settles and every timer
\* of callWithRetry runs out
SpecChatFair == SpecChat /\ WF_vars(ChatSettle \/ ChatDelayElapsed)

----------------------------------------------------------------------------
(* Text transform tools: applyMagicTool, humanizeText and their handlers *)

\* the provider call of applyMagicTool or humanizeText on the text
ToolCall(text) ==
    ProviderCall("tool", "flash", 0,
                 <<[kind |-> "text", prompt |-> "transform", text |-> text]>>)

MsgFailedToRefine == <<"Failed to refine text">>

\* applyMagicTool, and humanizeText of version 1, once callWithRetry is done:
\* how the call settles for the handler, on the text it was called with
ToolResult(ver, text, g) ==
    IF g.st = "returned"
    THEN Fulfilled(IF g.out.value.text # <<>> THEN g.out.value.text ELSE text)
    ELSE IF ver = 1
         THEN Rejected(Error(MessageOr(g.out.error, MsgFailedToRefine)))
         ELSE Fulfilled(text)

\* the alert of the catch of handleHumanize and of handleMagicTool
ToolAlert(ver) == IF ver = 1 THEN "Failed to refine text." ELSE "Tool failed."

\* how the provider call of a tool settles
ToolOutcomes ==
    {Fulfilled(Response(t)) : t \in {<<"refined">>, TextEmpty}}
    \cup {Rejected(Error(MsgHttp429))}

\* a tool call in flight: the section and the text it was called on
ToolTask(id, text) ==
    [id |-> id, text |-> text,
     gov |-> CallWithRetry(ToolCall(text), DefaultRetries, DefaultDelayMs)]

\* handleMagicTool(tool) or handleHumanize() of the SectionEditor of section
\* id is called (the buttons are shown when the section has content and are
\* disabled while a tool is in flight), up to the await
HandleTool(id) ==
    /\ SectionById(state.sections, id).content # <<>>
    /\ ToolsOf(tools, id) = {}
    /\ tools' = Append(tools, ToolTask(id, SectionById(state.sections, id).content))
    /\ issued' = 1
    /\ UNCHANGED <<uploads, version, gov, trace, state, an, analyzing, errorMsg,
                   lastAlert, tasks, chat, saved>>

\* The awaited provider call of the k-th tool call settles as o.
\* callWithRetry waits to retry, or is done; then the tool returns or throws
\* and the handler updates the section or shows the alert.
ToolSettleWith(k, o) ==
    /\ tools[k].gov.st = "pending"
    /\ LET g == GovSettle(version, tools[k].gov, o)
           r == ToolResult(version, tools[k].text, g)
       IN  IF ~GovDone(g)
           THEN /\ tools' = [tools EXCEPT ![k].gov = g]
                /\ UNCHANGED <<state, lastAlert>>
           ELSE /\ tools' = RemoveAt(tools, k)
                /\ state' = IF r.ok
                            THEN [state EXCEPT !.sections =
                                     SetContent(state.sections, tools[k].id,
                                                r.value)]
                            ELSE state
                /\ lastAlert' = IF r.ok THEN lastAlert ELSE ToolAlert(version)
    /\ issued' = 0
    /\ UNCHANGED <<uploads, version, gov, trace, an, analyzing, errorMsg, tasks, chat,
                   saved>>

\* the awaited provider call of the k-th tool call returns or fails
ToolSettle(k) == \E o \in ToolOutcomes : ToolSettleWith(k, o)

\* the awaited timer of callWithRetry of the k-th tool call runs out
ToolDelayElapsed(k) ==
    /\ tools[k].gov.st = "waiting"
    /\ tools' = [tools EXCEPT ![k].gov = GovResume(tools[k].gov)]
    /\ issued' = 1
    /\ UNCHANGED <<uploads, version, gov, trace, state, an, analyzing, errorMsg,
                   lastAlert, tasks, chat, saved>>

----------------------------------------------------------------------------
(* SpecEditor: a session of App: an analysis, and one section that is *)
(* edited, drafted and transformed                                    *)

\* the section that is drafted and transformed
DraftedSections == {"Introduction"}

\* what the user types into the section
EditorContents == {<<"typed">>, <<"typed", "more">>}

InitEditor ==
    /\ version \in Versions
    /\ gov = GovIdle
    /\ trace = <<>>
    /\ \E fs \in FileListsOfLen(version, 1) :
          /\ fs[1].type = TypePdf
          /\ state = [InitialState EXCEPT !.files = fs]
    /\ an = AnalysisIdle
    /\ analyzing = FALSE
    /\ errorMsg = NoErrorMsg
    /\ lastAlert = ""
    /\ tasks = <<>>
    /\ issued = 0
    /\ chat = ChatIdle
    /\ tools = <<>>
    /\ saved = <<>>
    /\ uploads = <<>>

NextEditor ==
    \/ AppStartResearch
    \/ AppAnalysisSettle
    \/ \E id \in DraftedSections : HandleGenerateSection(id)
    \/ \E k \in 1..Len(tasks) : DraftSettle(k)
    \/ \E k \in 1..Len(tasks) : DraftDelayElapsed(k)
    \/ \E id \in DraftedSections, c \in EditorContents : HandleUpdateSection(id, c)
    \/ \E id \in DraftedSections : HandleTool(id)
    \/ \E k \in 1..Len(tools) : ToolSettle(k)
    \/ \E k \in 1..Len(tools) : ToolDelayElapsed(k)

SpecEditor == InitEditor /\ [][NextEditor]_vars

----------------------------------------------------------------------------
(* SpecDraft: a session of App: analyses and the drafting of one section *)

NextDraft ==
    \/ AppStartResearch
    \/ AppAnalysisSettle
    \/ \E id \in DraftedSections : HandleGenerateSection(id)
    \/ \E k \in 1..Len(tasks) : DraftSettle(k)
    \/ \E k \in 1..Len(tasks) : DraftDelayElapsed(k)

SpecDraft == InitEditor /\ [][NextDraft]_vars

\* the drafting task of the section id goes on: its provider call returns
\* or fails, or its timer runs out
DraftProgress(id) ==
    \E k \in 1..Len(tasks) :
        tasks[k].id = id /\ (DraftSettle(k) \/ DraftDelayElapsed(k))

\* SpecDraft where every provider call of a drafting task settles and every
\* timer of callWithRetry runs out
SpecDraftFair ==
    SpecDraft /\ \A id \in DraftedSections : WF_vars(DraftProgress(id))

----------------------------------------------------------------------------
(* saveProject and the restore of the session when App is mounted *)

\* the fields of the session state whose value can be undefined
TextFields ==
    {"paperTitle", "researchGap", "noveltyClaim", "targetJournal",
     "methodologyPlan", "expectedResults", "qualityChecklist",
     "extractedReferences"}

\* JSON.stringify(state): a property whose value is undefined is left out
JsonStringify(st) ==
    [f \in {h \in DOMAIN st : h \notin TextFields \/ st[h] # Undefined} |-> st[f]]

\* parsed.f, undefined when the JSON text holds no such property
JsonField(json, f) == IF f \in DOMAIN json THEN json[f] ELSE Undefined

\* JSON.parse(saved), read as a session state
JsonParseState(json) ==
    [files |-> json.files,
     paperTitle |-> JsonField(json, "paperTitle"),
     researchGap |-> JsonField(json, "researchGap"),
     noveltyClaim |-> JsonField(json, "noveltyClaim"),
     targetJournal |-> JsonField(json, "targetJournal"),
     methodologyPlan |-> JsonField(json, "methodologyPlan"),
     expectedResults |-> JsonField(json, "expectedResults"),
     qualityChecklist |-> JsonField(json, "qualityChecklist"),
     extractedReferences |-> JsonField(json, "extractedReferences"),
     chatHistory |-> json.chatHistory,
     isChatOpen |-> json.isChatOpen,
     sections |-> json.sections,
     activeSectionId |-> json.activeSectionId]

\* chatHistory.slice(-5)
MinimalChatTurns == 5

\* version 2: { ...state, files: [] }
LightState(st) == [st EXCEPT !.files = <<>>]

\* version 2: { ...state, files: [], chatHistory: state.chatHistory.slice(-5) }
MinimalState(st) ==
    [st EXCEPT !.files = <<>>,
               !.chatHistory = LastN(st.chatHistory, MinimalChatTurns)]

\* version 1: { ...state, files: state.files.map(f => ({ ...f, data: '' })) }
TextOnlyState(st) ==
    [st EXCEPT !.files = [i \in 1..Len(st.files) |->
                             [st.files[i] EXCEPT !.data = <<>>]]]

\* one way saveProject can end: what it stores, if anything, and the alert
\* it shows, if any
SaveOutcome(store, alert) == [store |-> store, alert |-> alert]

\* saveProject(silent) on the state st.  The size of the JSON text and
\* whether localStorage.setItem throws are up to the environment.
SaveOutcomes(ver, st, silent) ==
    IF ver = 2
    THEN {SaveOutcome(<<JsonStringify(st)>>,
                      IF silent THEN "" ELSE "Project saved!"),
          SaveOutcome(<<JsonStringify(LightState(st))>>,
                      IF silent THEN "" ELSE "Project saved!"),
          SaveOutcome(<<JsonStringify(MinimalState(st))>>, ""),
          SaveOutcome(<<>>,
                      IF silent THEN "" ELSE "Storage Full: Could not auto-save.")}
    ELSE {SaveOutcome(<<JsonStringify(st)>>,
                      IF silent THEN "" ELSE "Project saved successfully!"),
          SaveOutcome(<<>>, "")}
         \cup (IF silent THEN {}
               ELSE {SaveOutcome(<<JsonStringify(TextOnlyState(st))>>, ""),
                     SaveOutcome(<<>>, "Failed to save project: ")})

\* the condition of the auto-save effect
AutoSaveDue(ver, st) ==
    IF ver = 2
    THEN ~Falsy(st.paperTitle) \/ Len(st.chatHistory) > 0
    ELSE Len(st.files) > 0 \/ ~Falsy(st.paperTitle)

\* the state that the effect run on mount sets, from the saved text
RestoreState(ver, json) ==
    IF ver = 2
    THEN [JsonParseState(json) EXCEPT
             !.files = IF "files" \in DOMAIN json THEN json.files ELSE <<>>]
    ELSE JsonParseState(json)

\* saveProject(silent) runs: by the timer of the auto-save effect (silent),
\* or by the save button
SaveProject(silent) ==
    /\ silent => AutoSaveDue(version, state)
    /\ \E o \in SaveOutcomes(version, state, silent) :
          /\ saved' = IF o.store # <<>> THEN o.store ELSE saved
          /\ lastAlert' = IF o.alert # "" THEN o.alert ELSE lastAlert
    /\ issued' = 0
    /\ UNCHANGED <<uploads, version, gov, trace, state, an, analyzing, errorMsg, tasks,
                   chat, tools>>

\* The page is loaded again: every component state is initial, no promise
\* of the page before is left, and the effect run on mount restores the
\* saved session, if there is one.
Reload ==
    /\ state' = IF saved = <<>> THEN InitialState
                ELSE RestoreState(version, saved[1])
    /\ an' = AnalysisIdle
    /\ analyzing' = FALSE
    /\ errorMsg' = NoErrorMsg
    /\ lastAlert' = ""
    /\ tasks' = <<>>
    /\ chat' = ChatIdle
    /\ tools' = <<>>
    /\ issued' = 0
    /\ UNCHANGED <<uploads, version, gov, trace, saved>>

----------------------------------------------------------------------------
(* SpecReload: a session of App that is saved and loaded again *)

InitReload ==
    /\ version \in Versions
    /\ gov = GovIdle
    /\ trace = <<>>
    /\ \E fs \in FileListsOfLen(version, 1) :
          /\ fs[1].type = TypePdf
          /\ state = [InitialState EXCEPT !.files = fs]
    /\ an = AnalysisIdle
    /\ analyzing = FALSE
    /\ errorMsg = NoErrorMsg
    /\ lastAlert = ""
    /\ tasks = <<>>
    /\ issued = 0
    /\ chat = ChatIdle
    /\ tools = <<>>
    /\ saved = <<>>
    /\ uploads = <<>>

NextReload ==
    \/ AppStartResearch
    \/ AppAnalysisSettle
    \/ \E id \in DraftedSections : HandleGenerateSection(id)
    \/ \E k \in 1..Len(tasks) : DraftSettle(k)
    \/ \E k \in 1..Len(tasks) : DraftDelayElapsed(k)
    \/ \E silent \in BOOLEAN : SaveProject(silent)
    \/ Reload

SpecReload == InitReload /\ [][NextReload]_vars

----------------------------------------------------------------------------
(* Ingestion: handleFileUpload, readFileAsData and removeFile of App *)

NamePng == <<"i",".","p","n","g">>
TypePng == <<"i","m","a","g","e","/","p","n","g">>
\* File.type of a file whose type the browser does not know
TypeUnknown == <<>>

\* most files in one selection of the file input
MaxBatch == 2
\* most selections made in one behaviour
MaxUploads == 2

\* the File objects a user can select: name, File.type and the bytes, as the
\* base64 payload readAsDataURL gives for them
SelectableFiles ==
    { [name |-> NamePdf, type |-> TypePdf, bytes |-> <<Base64Units[1]>>],
      [name |-> NameTxt, type |-> TypePlain, bytes |-> <<Base64Units[2]>>],
      [name |-> NameUpperPdf, type |-> TypeUnknown, bytes |-> <<Base64Units[3]>>],
      [name |-> NamePng, type |-> TypePng, bytes |-> <<Base64Units[4]>>] }

\* e.target.files: the selections of 1..MaxBatch files
Batches ==
    UNION {[1..n -> SelectableFiles] : n \in 1..MaxBatch}

MsgNoSupportedFiles ==
    <<"No supported files found. Please upload PDF, TXT, MD, or TEX.">>
MsgFailedToReadFiles == <<"Failed to read files. Please try again.">>
\* `File ${file.name} is skipped. Only PDF and TXT files are supported currently.`
MsgFileSkipped(name) ==
    <<"File ">> \o name
        \o <<" is skipped. Only PDF and TXT files are supported currently.">>

\* alert(text), as an event of the log
Alert(who, text) ==
    Event("alert", ProviderCall(who, "none", 0, <<>>), 0, [text |-> text])
\* one change event of the file input, as an event of the log
Selected(batch) ==
    Event("upload", ProviderCall("handleFileUpload", "none", 0, <<>>), 0,
          [batch |-> batch])

\* the UploadedFile a reader makes of a File:
\* type is file.type || 'application/octet-stream', data is reader.result
ReadFileAsData(file) ==
    UploadedFile(file.name,
                 IF file.type = TypeUnknown THEN TypeOctet ELSE file.type,
                 DataUrl(file.bytes))

\* the files of a selection that handleFileUpload goes on to read
ValidFiles(ver, batch) ==
    SelectSeq(batch, LAMBDA f : AcceptedByUpload(ver, f.name, f.type))
\* version 1: the alerts of the files that are skipped, in order
SkippedAlerts(batch) ==
    LET skipped == SelectSeq(batch, LAMBDA f : ~AcceptedByUploadV1(f.name, f.type))
    IN  [i \in 1..Len(skipped) |->
            Alert("handleFileUpload", MsgFileSkipped(skipped[i].name))]

\* a handleFileUpload call whose readers have not all finished: the files
\* it reads, the positions of those still being read, and (version 1) the
\* newFiles array its readers share
PendingUpload(files, left, newFiles) ==
    [files |-> files, left |-> left, newFiles |-> newFiles]

\* the user selects the files of batch in the file input
HandleFileUpload(batch) ==
    /\ Cardinality(EventsAt(trace, "upload")) < MaxUploads
    /\ LET valid == ValidFiles(version, batch)
           started == PendingUpload(valid, 1..Len(valid), <<>>)
       IN  IF version = 1
           THEN LET alerts == SkippedAlerts(batch)
                IN  /\ trace' = Append(trace, Selected(batch)) \o alerts
                    /\ lastAlert' = IF alerts = <<>> THEN lastAlert
                                    ELSE alerts[Len(alerts)].out.text
                    /\ errorMsg' = NoErrorMsg
                    /\ uploads' = IF valid = <<>> THEN uploads
                                  ELSE Append(uploads, started)
                    /\ UNCHANGED analyzing
           ELSE /\ trace' = Append(trace, Selected(batch))
                /\ IF valid = <<>>
                   THEN /\ errorMsg' = MsgNoSupportedFiles
                        /\ UNCHANGED <<analyzing, uploads>>
                   ELSE /\ errorMsg' = NoErrorMsg
                        /\ analyzing' = TRUE
                        /\ uploads' = Append(uploads, started)
                /\ UNCHANGED lastAlert
    /\ issued' = 0
    /\ UNCHANGED <<version, gov, state, an, tasks, chat, tools, saved>>

\* version 1, reader.onload of the i-th file of the k-th pending call: the
\* file joins newFiles, and the whole of newFiles is appended to the list.
\* A reader that fails (ok is FALSE) has no handler and changes nothing.
ReaderLoaded(k, i, ok) ==
    /\ version = 1
    /\ k \in 1..Len(uploads)
    /\ i \in uploads[k].left
    /\ LET u == uploads[k]
           newFiles == IF ok THEN Append(u.newFiles, ReadFileAsData(u.files[i]))
                       ELSE u.newFiles
           left == u.left \ {i}
       IN  /\ state' = IF ok
                       THEN [state EXCEPT !.files = state.files \o newFiles]
                       ELSE state
           /\ uploads' = IF left = {} THEN RemoveAt(uploads, k)
                         ELSE [uploads EXCEPT ![k] =
                                  PendingUpload(u.files, left, newFiles)]
    /\ issued' = 0
    /\ UNCHANGED <<version, gov, trace, an, analyzing, errorMsg, lastAlert,
                   tasks, chat, tools, saved>>

\* version 2, Promise.all of the readers of the k-th pending call settles:
\* every file is appended, or none is and the failure is shown; either way
\* the analyzing flag is cleared
ReadersSettle(k, ok) ==
    /\ version = 2
    /\ k \in 1..Len(uploads)
    /\ LET u == uploads[k]
           processedFiles == [i \in 1..Len(u.files) |-> ReadFileAsData(u.files[i])]
       IN  IF ok
           THEN /\ state' = [state EXCEPT !.files = state.files \o processedFiles]
                /\ UNCHANGED errorMsg
           ELSE /\ errorMsg' = MsgFailedToReadFiles
                /\ UNCHANGED state
    /\ analyzing' = FALSE
    /\ uploads' = RemoveAt(uploads, k)
    /\ issued' = 0
    /\ UNCHANGED <<version, gov, trace, an, lastAlert, tasks, chat, tools, saved>>

\* removeFile(index), version 2: the index-th document leaves the list
RemoveFile(index) ==
    /\ version = 2
    /\ index \in 1..Len(state.files)
    /\ state' = [state EXCEPT !.files = RemoveAt(state.files, index)]
    /\ issued' = 0
    /\ UNCHANGED <<version, gov, trace, an, analyzing, errorMsg, lastAlert,
                   tasks, chat, tools, saved, uploads>>

InitUpload ==
    /\ version \in Versions
    /\ gov = GovIdle
    /\ trace = <<>>
    /\ state = InitialState
    /\ an = AnalysisIdle
    /\ analyzing = FALSE
    /\ errorMsg = NoErrorMsg
    /\ lastAlert = ""
    /\ tasks = <<>>
    /\ issued = 0
    /\ chat = ChatIdle
    /\ tools = <<>>
    /\ saved = <<>>
    /\ uploads = <<>>

NextUpload ==
    \/ \E batch \in Batches : HandleFileUpload(batch)
    \/ \E k \in 1..Len(uploads), i \in 1..MaxBatch, ok \in BOOLEAN :
           ReaderLoaded(k, i, ok)
    \/ \E k \in 1..Len(uploads), ok \in BOOLEAN : ReadersSettle(k, ok)
    \/ \E index \in 1..Len(state.files) : RemoveFile(index)

SpecUpload == InitUpload /\ [][NextUpload]_vars

----------------------------------------------------------------------------
(* SpecLongList: the drafting of one section with up to MaxDraftFiles *)
(* documents in the list                                               *)

\* most documents in the list when a section is drafted
MaxDraftFiles == 4

InitLongList ==
    /\ version \in Versions
    /\ gov = GovIdle
    /\ trace = <<>>
    /\ \E n \in 0..MaxDraftFiles : \E fs \in FileListsOfLen(version, n) :
          state = [InitialState EXCEPT !.files = fs]
    /\ an = AnalysisIdle
    /\ analyzing = FALSE
    /\ errorMsg = NoErrorMsg
    /\ lastAlert = ""
    /\ tasks = <<>>
    /\ issued = 0
    /\ chat = ChatIdle
    /\ tools = <<>>
    /\ saved = <<>>
    /\ uploads = <<>>

SpecLongList == InitLongList /\ [][NextDraft]_vars

----------------------------------------------------------------------------
(* SpecWindow: the chat of a session (version 2) whose chat log already *)
(* holds the greetings of up to MaxLog analyses                         *)

\* most analyses committed before the first question
MaxLog == 12

\* the object the analysis returned each time
EarlierResult ==
    [title |-> "T1", target_journal |-> "J1", gap |-> "G1", novelty |-> "N1",
     methodology_plan |-> "M1", expected_results |-> "E1",
     checklist |-> "{checks1}", references |-> "[R1]"]

\* the session after n rounds of uploading one more PDF and running the
\* analysis: n documents, and n greetings in the chat log
RECURSIVE AnalysedTimes(_)
AnalysedTimes(n) ==
    IF n = 0 THEN InitialState
    ELSE LET before == AnalysedTimes(n - 1)
             files == Append(before.files,
                             UploadedFile(NamePdf, TypePdf,
                                          DataUrl(<<Base64Units[1]>>)))
         IN  CommitAnalysisV2([before EXCEPT !.files = files],
                              EarlierResult, files)

InitWindow ==
    /\ version = 2
    /\ gov = GovIdle
    /\ trace = <<>>
    /\ \E n \in 0..MaxLog : state = AnalysedTimes(n)
    /\ an = AnalysisIdle
    /\ analyzing = FALSE
    /\ errorMsg = NoErrorMsg
    /\ lastAlert = ""
    /\ tasks = <<>>
    /\ issued = 0
    /\ chat = ChatIdle
    /\ tools = <<>>
    /\ saved = <<>>
    /\ uploads = <<>>

NextWindow ==
    \/ \E input \in TypedQueries : HandleChatSubmit(input)
    \/ ChatSettle
    \/ ChatDelayElapsed

SpecWindow == InitWindow /\ [][NextWindow]_vars

----------------------------------------------------------------------------
(* SpecPreparer: prepareFileParts (version 1) and                        *)
(* files.map(prepareFilePart).filter(p => p !== null) (version 2),       *)
(* applied to lists of UploadedFile values                               *)

NameMd == <<"n",".","m","d">>
NameTex == <<"p",".","t","e","x">>
NameLatex == <<"l",".","l","a","t","e","x">>

\* most documents in a list handed to the preparer
MaxParts == 2

\* a payload that atob rejects
MalformedUnit == "%%%%"

\* the UploadedFile values the lists are made of; the last is a text document
\* whose payload is no base64
PreparerInputs ==
    { UploadedFile(NamePdf, TypePdf, DataUrl(<<Base64Units[1]>>)),
      UploadedFile(NameTxt, TypePlain, DataUrl(<<Base64Units[2]>>)),
      UploadedFile(NameUpperPdf, TypeOctet, DataUrl(<<Base64Units[3]>>)),
      UploadedFile(NameMd, TypeOctet, DataUrl(<<Base64Units[4]>>)),
      UploadedFile(NameTex, TypeOctet, DataUrl(<<Base64Units[5]>>)),
      UploadedFile(NameLatex, TypeOctet, DataUrl(<<Base64Units[1]>>)),
      UploadedFile(NamePng, TypePng, DataUrl(<<Base64Units[2]>>)),
      UploadedFile(NameMd, TypePlain, DataUrl(<<MalformedUnit>>)) }

InitPreparer ==
    /\ version \in Versions
    /\ gov = GovIdle
    /\ trace = <<>>
    /\ \E n \in 0..MaxParts : \E fs \in [1..n -> PreparerInputs] :
          state = [InitialState EXCEPT !.files = fs]
    /\ an = AnalysisIdle
    /\ analyzing = FALSE
    /\ errorMsg = NoErrorMsg
    /\ lastAlert = ""
    /\ tasks = <<>>
    /\ issued = 0
    /\ chat = ChatIdle
    /\ tools = <<>>
    /\ saved = <<>>
    /\ uploads = <<>>

\* the preparer is applied to the list: an.parts holds what it returns
\* (pc "prepared")
Prepare ==
    /\ an.pc = "idle"
    /\ an' = [an EXCEPT !.pc = "prepared", !.files = state.files,
                        !.parts = PrepareFileParts(version, state.files)]
    /\ UNCHANGED <<version, gov, trace, state, analyzing, errorMsg, lastAlert,
                   tasks, issued, chat, tools, saved, uploads>>

NextPreparer == Prepare

SpecPreparer == InitPreparer /\ [][NextPreparer]_vars

----------------------------------------------------------------------------
(* SpecMapReduce: startResearch (version 2) with more than 2 documents, *)
(* at most one of them not a PDF                                       *)

InitMapReduce ==
    /\ version = 2
    /\ gov = GovIdle
    /\ trace = <<>>
    /\ \E n \in (MapReduceThreshold + 1)..MaxFiles :
          \E fs \in FileListsOfLen(version, n) :
              /\ Cardinality({i \in 1..n : fs[i].type # TypePdf}) <= 1
              /\ state = [InitialState EXCEPT !.files = fs]
    /\ an = AnalysisIdle
    /\ analyzing = FALSE
    /\ errorMsg = NoErrorMsg
    /\ lastAlert = ""
    /\ tasks = <<>>
    /\ issued = 0
    /\ chat = ChatIdle
    /\ tools = <<>>
    /\ saved = <<>>
    /\ uploads = <<>>

SpecMapReduce == InitMapReduce /\ [][NextAnalysis]_vars

----------------------------------------------------------------------------
(* Claims about the Retry Governor, checked under SpecRetry *)

RECURSIVE Pow2(_)
Pow2(n) == IF n = 0 THEN 1 ELSE 2 * Pow2(n - 1)

\* the arguments the governor was started with
RetryArgs == IF trace = <<>> THEN [retries |-> 0, delayMs |-> 0] ELSE trace[1].out
\* how many times the operation was invoked, and how many timers ran out
Invocations == Cardinality(EventsAt(trace, "issue"))
Delays == Cardinality(EventsAt(trace, "delay"))
\* the outcomes of the invocations that have settled, in order
SettledAt == EventsAt(trace, "settle")
LastEvent == trace[Len(trace)]

\* C1: when an invocation of the operation fails with an error that the
\* governor does not classify as transient, the governor throws that very
\* error at once: nothing is invoked and no timer is awaited after it; when
\* it is the first invocation that fails so, the operation has been invoked
\* exactly once and no delay has happened, whatever the retries argument.
C1_NonTransientPropagatesAtOnce ==
    \A i \in SettledAt :
        (~trace[i].out.ok /\ ~IsRetryable(version, trace[i].out.error)) =>
            /\ i = Len(trace)
            /\ gov.st = "thrown"
            /\ gov.out = trace[i].out
            /\ (i = Min(SettledAt) => Invocations = 1 /\ Delays = 0)

\* C1 witness: a first failure that is not transient, thrown with every
\* retry still available
C1_Witness ==
    /\ gov.st = "thrown"
    /\ gov.out = Rejected(Error(MsgBadKey))
    /\ RetryArgs.retries = MaxRetries
    /\ gov.retries = MaxRetries
    /\ Invocations = 1
    /\ Delays = 0

\* C2: an operation that fails k times with an error the governor classifies
\* as transient and then succeeds, with k <= retries: the governor returns
\* the value of invocation k+1, has invoked the operation exactly k+1 times
\* and has waited delayMs * (2^k - 1) in all before the last invocation; and
\* it never gives up (throws) on a transient failure while k < retries.
C2_RetriesThenReturnsSuccess ==
    /\ (trace # <<>> /\ LastEvent.ev = "settle" /\ LastEvent.out.ok) =>
          gov.st = "returned"
    /\ gov.st = "returned" =>
          /\ LastEvent = Settle(AnyOperation, gov.out)
          /\ gov.out.ok
          /\ Invocations = Delays + 1
          /\ Cardinality(SettledAt) = Delays + 1
          /\ Delays <= RetryArgs.retries
          /\ \A i \in SettledAt \ {Len(trace)} :
                ~trace[i].out.ok /\ IsRetryable(version, trace[i].out.error)
          /\ SumMs(trace, Len(trace)) = RetryArgs.delayMs * (Pow2(Delays) - 1)
    /\ gov.st = "thrown" =>
          \/ ~IsRetryable(version, gov.out.error)
          \/ Delays = RetryArgs.retries

\* C2 witness: two transient failures, then success, with retries = 3 and
\* delayMs = 2000: three invocations, 2000 + 4000 waited
C2_Witness ==
    /\ gov.st = "returned"
    /\ RetryArgs = [retries |-> 3, delayMs |-> 2000]
    /\ Delays = 2
    /\ Invocations = 3
    /\ SumMs(trace, Len(trace)) = 6000
    /\ gov.out = Fulfilled(Response(TextAnalysisA))

\* the five markers of a transient condition
TransientMarkers ==
    {Marker429, Marker503, MarkerQuota, MarkerResourceExhausted,
     MarkerRateLimit}

HasTransientMarker(error) ==
    \E m \in TransientMarkers : Includes(LoweredMessage(error), m)

\* C3: in every version the governor treats a failure as transient (waits
\* and invokes again, when a retry is left) if and only if the lower-cased
\* message holds one of the five markers.
C3_TransientIffMarker ==
    /\ gov.st = "waiting" => HasTransientMarker(trace[Len(trace) - 1].out.error)
    /\ (gov.st = "thrown" /\ gov.retries > 0) => ~HasTransientMarker(gov.out.error)

----------------------------------------------------------------------------
(* Claims about analyzeFilesForNovelty, checked under SpecAnalysis *)

\* the positions of the log where a call made from `who` is started
IssuesBy(who) == {i \in EventsAt(trace, "issue") : trace[i].fn.who = who}
\* the positions of the log where an analysis call to `tier` is started
AnalysisIssues(tier) == {i \in IssuesBy("analysis") : trace[i].fn.tier = tier}
\* the positions of the log where an analysis call to `tier` returns or fails
AnalysisSettles(tier) ==
    {i \in EventsAt(trace, "settle") :
        trace[i].fn.who = "analysis" /\ trace[i].fn.tier = tier}
SummarizeIssues == IssuesBy("summarize")

\* String.prototype.startsWith
StartsWith(s, prefix) ==
    Len(prefix) <= Len(s) /\ SubSeq(s, 1, Len(prefix)) = prefix

\* the session as it is when no analysis has been committed
NothingCommitted == state = [InitialState EXCEPT !.files = state.files]

\* the object that TextAnalysisA is the JSON text of
ParsedAnalysisA ==
    [title |-> "T1", target_journal |-> "J1", gap |-> "G1", novelty |-> "N1",
     methodology_plan |-> "M1", expected_results |-> "E1",
     checklist |-> "{checks1}", references |-> "[R1]"]

\* C4: in analyzeFilesForNovelty (version 2) a fallback-tier call is made
\* only after every preferred-tier call has settled and the fallback warning
\* has been logged; the analysis never ends in failure without the fallback
\* tier having been called; and when the fallback tier's call succeeds, what
\* the analysis returns (and startResearch commits) is the object parsed from
\* the fallback tier's text.
C4_FallbackResultAndWarning ==
    /\ LET preferred == AnalysisIssues("pro") \cup AnalysisSettles("pro")
       IN  \A f \in AnalysisIssues("flash") :
              \E w \in EventsAt(trace, "warn") :
                  /\ trace[w] = Warn("fallback")
                  /\ w < f
                  /\ \A q \in preferred : q < w
    /\ (version = 2 /\ an.pc = "done" /\ ~an.result.ok) =>
          AnalysisIssues("flash") # {}
    /\ (an.pc = "done" /\ AnalysisIssues("flash") # {} /\ LastEvent.out.ok) =>
          /\ LastEvent.fn.tier = "flash"
          /\ LastEvent.out.value.text = TextAnalysisA =>
                /\ an.result = Fulfilled(ParsedAnalysisA)
                /\ state.paperTitle = "T1"
                /\ state.noveltyClaim = "N1"
          /\ an.result.ok =>
                an.result.value =
                    JsonParse(IF LastEvent.out.value.text = <<>>
                              THEN TextEmptyObject
                              ELSE LastEvent.out.value.text).value

\* C4 witness: the preferred tier fails four times with HTTP 429 (its three
\* retries used up), the fallback tier answers, and its answer is committed
C4_Witness ==
    /\ version = 2
    /\ an.pc = "done"
    /\ Cardinality(AnalysisSettles("pro")) = DefaultRetries + 1
    /\ \A q \in AnalysisSettles("pro") :
          trace[q].out = Rejected(Error(MsgHttp429))
    /\ Cardinality(AnalysisIssues("flash")) = 1
    /\ an.result = Fulfilled(ParsedAnalysisA)
    /\ state.paperTitle = "T1"

\* C5: when analyzeFilesForNovelty (version 2) fails, the fallback tier has
\* been called, the error it throws has the message 'Analysis failed after
\* retries: ' followed by the message of the last failure (so it is not the
\* provider's error), nothing is committed to the session, and the message
\* shown is 'Analysis failed: ' followed by that message; and it does fail
\* when the last call of the fallback tier fails.
C5_BothTiersFailNamesOperation ==
    /\ (version = 2 /\ an.pc = "done" /\ ~an.result.ok) =>
          /\ AnalysisIssues("flash") # {}
          /\ LastEvent.ev = "settle"
          /\ LastEvent.fn.tier = "flash"
          /\ StartsWith(an.result.error.message, MsgAnalysisFailedAfterRetries)
          /\ ~LastEvent.out.ok =>
                /\ an.result.error.message =
                      MsgAnalysisFailedAfterRetries \o LastEvent.out.error.message
                /\ an.result.error # LastEvent.out.error
          /\ NothingCommitted
          /\ errorMsg = MsgAnalysisFailed \o an.result.error.message
          /\ ~analyzing
    /\ (version = 2 /\ an.pc = "done" /\ ~LastEvent.out.ok) => ~an.result.ok

\* C5 witness: both tiers fail with 'bad key'
C5_Witness ==
    /\ version = 2
    /\ an.pc = "done"
    /\ \E q \in AnalysisSettles("pro") : trace[q].out = Rejected(Error(MsgBadKey))
    /\ LastEvent = Settle(AnalysisCall("flash", an.parts), Rejected(Error(MsgBadKey)))
    /\ an.result = Rejected(Error(MsgAnalysisFailedAfterRetries \o MsgBadKey))
    /\ errorMsg = MsgAnalysisFailed \o MsgAnalysisFailedAfterRetries \o MsgBadKey

\* C6: in every version, when the response that ends the analysis has an
\* empty text or a text that does not parse, the analysis fails and nothing
\* is committed to the session.
C6_MalformedResponseFails ==
    (/\ an.pc = "done"
     /\ trace # <<>>
     /\ LastEvent.out.ok
     /\ \/ LastEvent.out.value.text = <<>>
        \/ ~JsonWellFormed(LastEvent.out.value.text)) =>
        /\ ~an.result.ok
        /\ NothingCommitted

\* C7: when the first preferred-tier call of an analysis fails with an error
\* that has none of the transient markers, the analysis has failed and no
\* provider call is made after it.
C7_PermanentErrorEndsTask ==
    \A p \in AnalysisSettles("pro") :
        (/\ p = Min(AnalysisSettles("pro"))
         /\ ~trace[p].out.ok
         /\ ~HasTransientMarker(trace[p].out.error)) =>
            /\ \A q \in EventsAt(trace, "issue") : q < p
            /\ an.pc = "done"
            /\ ~an.result.ok

\* a document of a format the Attachment Preparer accepts: PDF or text by
\* its declared type, or plain text, markdown or LaTeX by its name
SupportedFormat(file) ==
    \/ Includes(file.type, WordPdf)
    \/ Includes(file.type, WordText)
    \/ \E suffix \in {SuffixTxt, SuffixMd, SuffixTex, SuffixLatex} :
          EndsWith(file.name, suffix)

SupportedDocs == {i \in 1..Len(an.files) : SupportedFormat(an.files[i])}

NthOf(S, j) == CHOOSE x \in S : Cardinality({y \in S : y < x}) = j - 1

\* C9: analyzeFilesForNovelty (version 2) with at most 2 documents makes no
\* summarization call and attaches to each analysis request, before the
\* prompt, one part for each document of supported format, in the order of
\* the documents; with more than 2 documents it attaches, before the prompt,
\* the single text part of the combined summaries (one summary slot for each
\* document) and no part of a document.
C9_DirectInclusionOrSummaries ==
    version = 2 =>
      \A a \in IssuesBy("analysis") :
        LET parts == trace[a].fn.parts
            supported == SupportedDocs
        IN  /\ parts[Len(parts)] = PromptPart("analysis")
            /\ IF Len(an.files) <= MapReduceThreshold
               THEN /\ SummarizeIssues = {}
                    /\ Len(parts) = Cardinality(supported) + 1
                    /\ \A j \in 1..Cardinality(supported) :
                          LET i == NthOf(supported, j)
                          IN  \/ /\ parts[j].kind = "inlineData"
                                 /\ parts[j].body = <<Base64Units[i]>>
                              \/ /\ parts[j].kind = "text"
                                 /\ parts[j].name = an.files[i].name
                                 /\ parts[j].body = <<Base64Chars[i]>>
               ELSE /\ Len(parts) = 2
                    /\ parts[1].kind = "text"
                    /\ parts[1].name = <<>>
                    /\ Len(parts[1].summaries) = Len(an.files)
                    /\ parts[1] = SummariesPart(an.summaries)

\* C9 witness: two documents, only the second of supported format: the
\* analysis request carries one document part and the prompt
C9_Witness ==
    /\ version = 2
    /\ Len(an.files) = 2
    /\ SupportedDocs = {2}
    /\ an.pc = "analysis"
    /\ Len(gov.fn.parts) = 2
    /\ gov.fn.parts[1].kind = "inlineData"
    /\ SummarizeIssues = {}

----------------------------------------------------------------------------
(* Claims about the section handlers, checked under SpecApp *)

\* no analysis has been committed to the session
NoAnalysisResult == state.qualityChecklist = "null" /\ state.noveltyClaim = ""

\* C10: a call of handleGenerateSection while the session holds no analysis
\* result makes no provider call, starts no drafting task, and leaves the
\* session state as it is: no isGenerating flag is set, no content changes.
C10_NoAnalysisNoDraft ==
    [][(NoAnalysisResult /\ \E id \in EditedSections : HandleGenerateSection(id))
          => /\ issued' = 0
             /\ tasks' = tasks
             /\ state' = state]_vars

\* the request has been rejected: the alert is up, and nothing else happened
C10_Witness ==
    /\ NoAnalysisResult
    /\ lastAlert \in {"Run Analysis first.", "Run 'Deep Analysis' first."}
    /\ issued = 0
    /\ tasks = <<>>
    /\ \A i \in 1..Len(state.sections) : ~state.sections[i].isGenerating
    /\ Len(state.files) > 0

----------------------------------------------------------------------------
(* Claims about the advisory dialogue, checked under SpecChat *)

\* C11: handleChatSubmit called while no analysis result exists makes no
\* provider call and leaves the awaited consultCPO call absent (nothing is
\* sent, so no reply of the provider can be appended).
C11_NoAnalysisNoChat ==
    [][(NoAnalysisResult /\ \E input \in TypedQueries : HandleChatSubmit(input))
         => (issued' = 0 /\ chat' = chat)]_vars

----------------------------------------------------------------------------
(* Claims about the saved session, checked under SpecReload *)

\* the drafting tasks in flight for the section id
TasksOf(id) == {k \in 1..Len(tasks) : tasks[k].id = id}

\* C12: whenever the isGenerating flag of a section is true, a drafting task
\* for that section is in flight.
C12_GeneratingOnlyInFlight ==
    \A i \in 1..Len(state.sections) :
        state.sections[i].isGenerating => TasksOf(state.sections[i].id) # {}

----------------------------------------------------------------------------
(* Claims about concurrent section drafts, checked under SpecApp *)

\* C13: at any time at most one drafting task is in flight for each section:
\* no generate request reaches the provider for a section whose task is
\* still pending.
C13_OneTaskPerSection ==
    \A i \in 1..Len(state.sections) :
        Cardinality(TasksOf(state.sections[i].id)) <= 1

\* two sections are being drafted at once, one of them after a retry, and
\* the generate button of each is disabled
C13_Witness ==
    /\ Len(tasks) = 2
    /\ tasks[1].id # tasks[2].id
    /\ tasks[1].gov.retries < DefaultRetries
    /\ \A id \in EditedSections :
          /\ SectionById(state.sections, id).isGenerating
          /\ ~ENABLED HandleGenerateSection(id)

\* the k-th drafting task is completed by the step
DraftCompletes(k) == tasks' = RemoveAt(tasks, k) /\ DraftSettle(k)

\* the step changes nothing of the session state but the section id
OnlySectionChanges(id) ==
    /\ \A i \in 1..Len(state.sections) :
          state.sections[i].id # id => state'.sections[i] = state.sections[i]
    /\ [state' EXCEPT !.sections = state.sections] = state

ErrorPrefixes == {"Error: ", "Error generating content: "}

IsInlineError(content) == content # <<>> /\ content[1] \in ErrorPrefixes

\* C16: when the provider call of a drafting task fails on the last retry
\* and callWithRetry gives up, the section of the task gets an inline error text as content
\* and its isGenerating flag is reset; nothing else of the session changes,
\* no alert or error banner is raised and the other drafting tasks stay in
\* flight, so other sections can be drafted as before.
C16_FailedDraftIsInlineError ==
    [][\A k \in 1..Len(tasks) : \A o \in DraftOutcomes :
          (/\ ~o.ok
           /\ tasks[k].gov.st = "pending"
           /\ tasks[k].gov.retries = 0
           /\ GovSettle(version, tasks[k].gov, o).st = "thrown"
           /\ DraftSettleWith(k, o))
          => /\ IsInlineError(SectionById(state'.sections, tasks[k].id).content)
             /\ ~SectionById(state'.sections, tasks[k].id).isGenerating
             /\ OnlySectionChanges(tasks[k].id)
             /\ tasks' = RemoveAt(tasks, k)
             /\ lastAlert' = lastAlert
             /\ errorMsg' = errorMsg]_vars

\* the draft of the Title has failed, and the Introduction, started after
\* that, has been drafted
C16_Witness ==
    /\ IsInlineError(SectionById(state.sections, "Title").content)
    /\ ~SectionById(state.sections, "Title").isGenerating
    /\ SectionById(state.sections, "Introduction").content = <<"draft">>
    /\ ~SectionById(state.sections, "Introduction").isGenerating
    /\ tasks = <<>>

----------------------------------------------------------------------------
(* Claims about the end of a drafting task, checked under SpecDraftFair *)

\* C17: whenever the isGenerating flag of a section is true, it is false
\* again later with a content that is not empty in that section, whatever
\* the provider calls of the task return or fail with.
C17_GeneratingEndsWithContent ==
    \A id \in DraftedSections :
        SectionById(state.sections, id).isGenerating
        ~> (/\ ~SectionById(state.sections, id).isGenerating
            /\ SectionById(state.sections, id).content # <<>>)

\* a draft that failed on every retry has ended: the section holds the
\* inline error text, a second analysis is running, and nothing is generating
C17_Witness ==
    /\ IsInlineError(SectionById(state.sections, "Introduction").content)
    /\ \A id \in DraftedSections : ~SectionById(state.sections, id).isGenerating
    /\ tasks = <<>>
    /\ an.pc = "analysis"

----------------------------------------------------------------------------
(* Claims about the text transform tools, checked under SpecEditor *)

\* C15: a response that arrives after its target was written anew does not
\* replace the newer value.  Here: when a tool call completes and the
\* section holds a text that the user typed while the call was in flight
\* (a typed text other than the one the tool was called on), the section
\* keeps that text.
C15_StaleResponseNeverOverwrites ==
    [][\A k \in 1..Len(tools) :
          (/\ tools' = RemoveAt(tools, k)
           /\ SectionById(state.sections, tools[k].id).content \in EditorContents
           /\ SectionById(state.sections, tools[k].id).content # tools[k].text
           /\ ToolSettle(k))
          => SectionById(state'.sections, tools[k].id).content
               = SectionById(state.sections, tools[k].id).content]_vars

\* C18: when the provider call of a tool fails on the last retry, or returns
\* an empty text, the tool returns the text it was called on and does not
\* throw: no alert is shown and the section holds that text afterwards.
C18_FailedToolReturnsOriginal ==
    [][\A k \in 1..Len(tools) : \A o \in ToolOutcomes :
          (/\ tools[k].gov.st = "pending"
           /\ \/ o.ok /\ o.value.text = <<>>
              \/ ~o.ok /\ tools[k].gov.retries = 0
           /\ ToolSettleWith(k, o))
          => /\ ToolResult(version, tools[k].text,
                           GovSettle(version, tools[k].gov, o))
                  = Fulfilled(tools[k].text)
             /\ SectionById(state'.sections, tools[k].id).content = tools[k].text
             /\ lastAlert' = lastAlert]_vars

----------------------------------------------------------------------------
(* Claims about the replies of the advisory dialogue, checked under *)
(* SpecChatFair                                                     *)

\* the message that startResearch appends to the chat log begins with this
AnalysisGreeting == "I have analyzed "

\* the turns of the chat log that handleChatSubmit appended as replies
ReplyTurns(history) ==
    {i \in 1..Len(history) :
        /\ history[i].role = "model"
        /\ (history[i].text = <<>> \/ history[i].text[1] # AnalysisGreeting)}

\* the first n turns of the chat log hold as many replies as user turns, or
\* one less
RepliesFollow(history, n) ==
    Cardinality(UserTurns(SubSeq(history, 1, n)))
      - Cardinality(ReplyTurns(SubSeq(history, 1, n))) \in {0, 1}

\* C19: consultCPO always ends with a reply that is not empty, and every
\* user turn of the chat log is followed by exactly one reply: at any time
\* the replies are not empty, each answers the user turn before it, only
\* the last user turn can be unanswered and then consultCPO is awaited; and
\* an awaited consultCPO always ends.
C19_EveryTurnIsAnswered ==
    /\ [](/\ \A i \in ReplyTurns(state.chatHistory) :
                state.chatHistory[i].text # <<>>
          /\ \A n \in 0..Len(state.chatHistory) :
                RepliesFollow(state.chatHistory, n)
          /\ Cardinality(UserTurns(state.chatHistory))
               = Cardinality(ReplyTurns(state.chatHistory))
                 + (IF chat.pc = "idle" THEN 0 ELSE 1))
    /\ (chat.pc # "idle" ~> chat.pc = "idle")

\* two questions have been answered, one by the message that stands for an
\* empty response text and one by the message that stands for the failure
\* of both tiers
C19_Witness ==
    /\ chat.pc = "idle"
    /\ Cardinality(UserTurns(state.chatHistory)) = 2
    /\ \E i, j \in ReplyTurns(state.chatHistory) :
          /\ state.chatHistory[i].text = MsgCannotAnswer
          /\ state.chatHistory[j].text = MsgUnavailable

----------------------------------------------------------------------------
(* Claims about the validation of the documents, checked under SpecAnalysis *)

\* C20: an analysis of a session that holds no document, or no document of
\* a supported format, makes no provider call.
C20_NoSupportedDocumentNoCall ==
    (\A i \in 1..Len(state.files) : ~SupportedFormat(state.files[i]))
        => EventsAt(trace, "issue") = {}

----------------------------------------------------------------------------
(* Claims about ingestion, checked under SpecUpload *)

\* the files of a selection that the running version does not accept
Unsupported(batch) ==
    SelectSeq(batch, LAMBDA f : ~AcceptedByUpload(version, f.name, f.type))

\* the messages about unsupported files that one step shows: the alerts it
\* adds to the log, and the error message when it is the one naming the
\* supported formats
NewAlerts ==
    {i \in EventsAt(trace', "alert") : i > Len(trace)}
ShowsSupportedFormats ==
    \/ errorMsg' = MsgNoSupportedFiles
    \/ NewAlerts # {}

\* C21: every file of an unsupported format in a selection is kept out of
\* the document list and is reported to the user by a message that names
\* the supported formats, whether or not the selection also holds supported
\* files.
C21_UnsupportedFileIsReported ==
    [][\A batch \in Batches :
          (HandleFileUpload(batch) /\ Unsupported(batch) # <<>>)
             => /\ ShowsSupportedFormats
                /\ \/ errorMsg' = MsgNoSupportedFiles
                   \/ Cardinality(NewAlerts) = Len(Unsupported(batch))]_vars

\* no document of the list is a file the running version does not accept
UnsupportedNeverListed ==
    \A i \in 1..Len(state.files) :
        \E f \in SelectableFiles :
            /\ AcceptedByUpload(version, f.name, f.type)
            /\ state.files[i] = ReadFileAsData(f)

----------------------------------------------------------------------------
(* Further claims about the Retry Governor, checked under SpecRetry *)

\* every invocation that has settled failed with an error the governor
\* classifies as transient
AlwaysTransient ==
    \A i \in SettledAt :
        ~trace[i].out.ok /\ IsRetryable(version, trace[i].out.error)

\* C22: an operation that fails with a transient error on every invocation
\* is invoked exactly retries + 1 times with exactly retries delays, and
\* then the governor ends by throwing the error of the last invocation as it
\* is; whatever the failures are, the operation is never invoked more than
\* retries + 1 times, and once it has settled retries + 1 times the governor
\* has ended.
C22_BoundedInvocations ==
    trace # <<>> =>
        /\ Invocations <= RetryArgs.retries + 1
        /\ Delays <= RetryArgs.retries
        /\ Cardinality(SettledAt) = RetryArgs.retries + 1 => GovDone(gov)
        /\ (gov.st = "thrown" /\ AlwaysTransient) =>
              /\ Invocations = RetryArgs.retries + 1
              /\ Delays = RetryArgs.retries
              /\ LastEvent.ev = "settle"
              /\ gov.out = LastEvent.out
        /\ (AlwaysTransient /\ Cardinality(SettledAt) <= RetryArgs.retries) =>
              ~GovDone(gov)

\* C22 witness: retries = MaxRetries, every invocation fails with HTTP 503
\* and the last failure is thrown
C22_Witness ==
    /\ gov.st = "thrown"
    /\ RetryArgs.retries = MaxRetries
    /\ AlwaysTransient
    /\ Invocations = MaxRetries + 1
    /\ Delays = MaxRetries
    /\ gov.out = Rejected(Error(MsgHttp503))

\* the positions of the log where a timer ran out, in order
RECURSIVE Ascending(_)
Ascending(S) ==
    IF S = {} THEN <<>> ELSE <<Min(S)>> \o Ascending(S \ {Min(S)})
DelaysAt == Ascending(EventsAt(trace, "delay"))

\* C23: the k-th delay lasts delayMs * 2^(k-1); it comes after the failure
\* of invocation k and the next invocation follows it at once, so no delay
\* comes before the first invocation or after the last one.
C23_BackoffDoubles ==
    \A k \in 1..Len(DelaysAt) :
        LET i == DelaysAt[k]
        IN  /\ trace[i].ms = RetryArgs.delayMs * Pow2(k - 1)
            /\ k <= RetryArgs.retries
            /\ Cardinality({j \in EventsAt(trace, "issue") : j < i}) = k
            /\ Cardinality({j \in SettledAt : j < i}) = k
            /\ i < Len(trace)
            /\ trace[i + 1] = Issue(AnyOperation)

\* C23 witness: the defaults (3 retries, 2000 ms) with four transient
\* failures: the waits are 2000, 4000 and 8000 ms, in that order
C23_Witness ==
    /\ gov.st = "thrown"
    /\ RetryArgs = [retries |-> DefaultRetries, delayMs |-> DefaultDelayMs]
    /\ Len(DelaysAt) = 3
    /\ [k \in 1..3 |-> trace[DelaysAt[k]].ms] = <<2000, 4000, 8000>>
    /\ LastEvent.ev = "settle"

----------------------------------------------------------------------------
(* Further claims about analyzeFilesForNovelty: C24 is checked under *)
(* SpecAnalysis, C25 and C26 under SpecMapReduce                   *)

\* C24: no fallback-tier call is started before the last preferred-tier
\* call has failed, no preferred-tier call is started after a fallback-tier
\* call, and once a preferred-tier call has returned a response no
\* fallback-tier call is made.
C24_TierOrdering ==
    /\ \A f \in AnalysisIssues("flash") :
          /\ \A q \in AnalysisIssues("pro") \cup AnalysisSettles("pro") : q < f
          /\ AnalysisSettles("pro") # {}
          /\ ~trace[Max(AnalysisSettles("pro"))].out.ok
    /\ \A i \in AnalysisSettles("pro") :
          trace[i].out.ok => AnalysisIssues("flash") = {}

\* the positions of the log where a summarization call returns or fails
SummarizeSettles ==
    {i \in EventsAt(trace, "settle") : trace[i].fn.who = "summarize"}
\* the positions of the log where the pause after a document ran out
PausesAt ==
    {i \in EventsAt(trace, "delay") : trace[i] = Delay("pause", SummaryPauseMs)}

\* C25: in map-reduce mode at most one summarization call is in flight, and
\* the summarization of a document begins only after the summarization of
\* every earlier document has returned or failed and the pause after each
\* earlier document has run out.
C25_SummariesOneAtATime ==
    /\ Cardinality(SummarizeIssues) - Cardinality(SummarizeSettles) \in {0, 1}
    /\ \A q \in SummarizeIssues :
          /\ \A p \in SummarizeIssues :
                p < q => \E r \in SummarizeSettles :
                            p < r /\ r < q /\ trace[r].fn = trace[p].fn
          /\ Cardinality({d \in PausesAt : d < q}) = trace[q].fn.doc - 1
          /\ trace[q].fn.doc > 1 => q - 1 \in PausesAt

\* C25 witness: three supported documents, each summarized in turn, the
\* three pauses over and the combining analysis call started
C25_Witness ==
    /\ version = 2
    /\ Len(an.files) = 3
    /\ an.pc = "analysis"
    /\ {trace[q].fn.doc : q \in SummarizeIssues} = {1, 2, 3}
    /\ Cardinality(SummarizeSettles) = 3
    /\ Cardinality(PausesAt) = 3

\* the positions of the log where the summarization call of document j is
\* started
SummarizeIssuesOf(j) == {p \in SummarizeIssues : trace[p].fn.doc = j}

\* C26: when the provider call of summarizeFile fails, it is the only call
\* made for that document (no retry, no other tier), the failure is logged,
\* the summary of the document is the empty string and nothing is thrown:
\* the loop goes on to the pause and the next document, and the combining
\* analysis call is made with one summary slot for every document.
C26_FailedSummaryIsSkipped ==
    /\ \A r \in SummarizeSettles :
          ~trace[r].out.ok =>
             LET j == trace[r].fn.doc
             IN  /\ Cardinality(SummarizeIssuesOf(j)) = 1
                 /\ trace[r].fn.tier = "flash"
                 /\ trace[r + 1] = Warn("summarize")
                 /\ Len(an.summaries) >= j
                 /\ an.summaries[j] = NoSummary
                 /\ an.pc \in {"pause", "summarizing", "analysis", "done"}
                 /\ an.pc = "pause" => an.i >= j
                 /\ an.pc = "summarizing" => an.i > j
    /\ (an.pc = "done" /\ SummarizeIssues # {}) => IssuesBy("analysis") # {}
    /\ (an.pc \in {"analysis", "done"} /\ SummarizeIssues # {}) =>
          /\ \A j \in SupportedDocs : Cardinality(SummarizeIssuesOf(j)) = 1
          /\ Len(an.summaries) = Len(an.files)
          /\ an.parts = <<SummariesPart(an.summaries)>>
          /\ \A a \in IssuesBy("analysis") :
                trace[a].fn.parts = an.parts \o <<PromptPart("analysis")>>

\* C26 witness: three supported documents, the summarization of the second
\* fails; the third is summarized and the combining analysis call is made
C26_Witness ==
    /\ version = 2
    /\ Len(an.files) = 3
    /\ SupportedDocs = {1, 2, 3}
    /\ \E r \in SummarizeSettles : trace[r].fn.doc = 2 /\ ~trace[r].out.ok
    /\ Cardinality(SummarizeIssues) = 3
    /\ Len(an.summaries) = 3
    /\ an.summaries[2] = NoSummary
    /\ an.summaries[3] # NoSummary
    /\ IssuesBy("analysis") # {}

----------------------------------------------------------------------------
(* Claims about the drafting request, checked under SpecLongList *)

\* the parts of a request but the last, which is the prompt
DocumentParts(fn) == SubSeq(fn.parts, 1, Len(fn.parts) - 1)

\* C27: the request of every drafting task attaches, before the prompt, the
\* parts of the first 3 documents of the list and of no other document, in
\* the order of the documents: never more than 3 document parts.
C27_DraftAttachesFirstThree ==
    \A k \in 1..Len(tasks) :
        LET fn == tasks[k].gov.fn
            first == SubSeq(state.files, 1, Min({3, Len(state.files)}))
        IN  /\ fn.parts[Len(fn.parts)] = PromptPart("draft")
            /\ Len(DocumentParts(fn)) <= 3
            /\ DocumentParts(fn) = PrepareFileParts(version, first)

----------------------------------------------------------------------------
(* Claims about the chat request, checked under SpecWindow *)

\* the request of the consultCPO call in progress
ChatRequest == chat.gov.fn.parts[1]
\* the chat log as it was before the user turn in progress was appended
LogBefore == SubSeq(state.chatHistory, 1, Len(state.chatHistory) - 1)

\* C28: the prior turns sent with a query are the most recent 10 turns (all
\* of them when there are fewer) of the chat log as it was before the user
\* turn of the query was appended, in the order of the log; the user turn
\* itself is sent as the query and is no part of the window.
C28_WindowIsLastTenBefore ==
    chat.pc # "idle" =>
        LET w == ChatRequest.window
            n == Len(LogBefore)
            turn == state.chatHistory[Len(state.chatHistory)]
        IN  /\ Len(w) <= 10
            /\ Len(w) = Min({10, n})
            /\ \A i \in 1..Len(w) : w[i] = LogBefore[n - Len(w) + i]
            /\ turn = ChatMessage("user", ChatRequest.query)

\* C28 witness: a question asked when the log holds 12 turns, each different
\* from the others: the window holds the 3rd to the 12th
C28_Witness ==
    /\ chat.pc # "idle"
    /\ Len(LogBefore) = 12
    /\ \A i, j \in 1..12 : i # j => LogBefore[i] # LogBefore[j]
    /\ Len(ChatRequest.window) = 10
    /\ ChatRequest.window[1] = LogBefore[3]
    /\ ChatRequest.window[10] = LogBefore[12]

----------------------------------------------------------------------------
(* Claims about the Attachment Preparer, checked under SpecPreparer *)

\* a document whose declared type says PDF
PdfLike(file) == Includes(file.type, WordPdf)
\* a document that is plain text by its declared type, or by its name:
\* plain text, markdown or LaTeX
TextLike(file) ==
    /\ ~PdfLike(file)
    /\ \/ Includes(file.type, WordText)
       \/ \E suffix \in {SuffixTxt, SuffixMd, SuffixTex, SuffixLatex} :
             EndsWith(file.name, suffix)

Malformed(file) ==
    LET b64 == CleanBase64(file.data)
    IN  \E i \in 1..Len(b64) : ~Base64Valid(b64[i])

\* what the preparer gives for each document of the list taken alone, put
\* together in the order of the documents
RECURSIVE PartsOneByOne(_, _)
PartsOneByOne(ver, files) ==
    IF files = <<>> THEN <<>>
    ELSE PrepareFileParts(ver, <<Head(files)>>) \o PartsOneByOne(ver, Tail(files))

\* how many parts the first i documents of the list yield
PartsUpTo(ver, files, i) == Len(PartsOneByOne(ver, SubSeq(files, 1, i)))

\* C31: a text-like document whose payload does not decode still yields its
\* text part, headed by its name and with an empty body; nothing is thrown,
\* and every other document of the list yields what it yields alone.
C31_DecodingFailureIsContained ==
    an.pc = "prepared" =>
        /\ an.parts = PartsOneByOne(version, an.files)
        /\ \A i \in 1..Len(an.files) :
              (TextLike(an.files[i]) /\ Malformed(an.files[i])) =>
                 LET at == PartsUpTo(version, an.files, i)
                 IN  /\ at = PartsUpTo(version, an.files, i - 1) + 1
                     /\ an.parts[at].kind = "text"
                     /\ an.parts[at].name = an.files[i].name
                     /\ an.parts[at].body = <<>>

\* C31 witness: a text document that does not decode, then a PDF: the empty
\* text part, then the part of the PDF
C31_Witness ==
    /\ an.pc = "prepared"
    /\ Len(an.files) = 2
    /\ Malformed(an.files[1]) /\ TextLike(an.files[1])
    /\ an.files[2].type = TypePdf
    /\ Len(an.parts) = 2
    /\ an.parts[1] = SourceTextPart(NameMd, <<>>)
    /\ an.parts[2] = InlinePart(<<Base64Units[1]>>)

----------------------------------------------------------------------------
(* Claims about ingestion and the Attachment Preparer together, checked *)
(* under SpecUpload                                                     *)

\* C30: every document that handleFileUpload has put into the list yields a
\* part in the Attachment Preparer of the running version.
C30_AcceptedFilesYieldParts ==
    \A i \in 1..Len(state.files) :
        PrepareFilePart(version, state.files[i]) # NoPart

----------------------------------------------------------------------------
(* A second analysis run over a session that an earlier run has filled *)

\* the object the earlier run returned
PreviousResult ==
    [title |-> "T0", target_journal |-> "J0", gap |-> "G0", novelty |-> "N0",
     methodology_plan |-> "M0", expected_results |-> "E0",
     checklist |-> "{checks0}", references |-> "[R0]"]

\* one PDF uploaded, and the analysis run once over it
AnalysedBefore(ver) ==
    LET files == <<UploadedFile(NamePdf, TypePdf, DataUrl(<<Base64Units[1]>>))>>
    IN  CommitAnalysis(ver, [InitialState EXCEPT !.files = files],
                       PreviousResult, files)

InitRerun ==
    /\ version \in Versions
    /\ gov = GovIdle
    /\ trace = <<>>
    /\ state = AnalysedBefore(version)
    /\ an = AnalysisIdle
    /\ analyzing = FALSE
    /\ errorMsg = NoErrorMsg
    /\ lastAlert = ""
    /\ tasks = <<>>
    /\ issued = 0
    /\ chat = ChatIdle
    /\ tools = <<>>
    /\ saved = <<>>
    /\ uploads = <<>>

NextRerun ==
    \/ StartResearch
    \/ AnalysisSettle
    \/ AnalysisDelayElapsed

SpecRerun == InitRerun /\ [][NextRerun]_vars

----------------------------------------------------------------------------
(* Claims about the analysis commit, checked under SpecRerun *)

\* the analysis-derived fields of the session, each with the key of the
\* result it is set from
DerivedFields ==
    << <<"paperTitle", "title">>, <<"researchGap", "gap">>,
       <<"noveltyClaim", "novelty">>, <<"targetJournal", "target_journal">>,
       <<"methodologyPlan", "methodology_plan">>,
       <<"expectedResults", "expected_results">>,
       <<"qualityChecklist", "checklist">> >>

\* C32: once a run of the analysis has committed its result, every
\* analysis-derived field of the session is the field of that result (the
\* references, which only version 2 has, are the result's list, or the empty
\* list when the result has none), and none is the value the earlier run left.
C32_CommitReplacesEveryField ==
    (an.pc = "done" /\ an.result.ok) =>
        /\ \A i \in 1..Len(DerivedFields) :
              /\ state[DerivedFields[i][1]] =
                    Prop(an.result.value, DerivedFields[i][2])
              /\ state[DerivedFields[i][1]] #
                    PreviousResult[DerivedFields[i][2]]
        /\ version = 2 =>
              /\ state.extractedReferences =
                    IF "references" \in DOMAIN an.result.value
                    THEN an.result.value.references ELSE "[]"
              /\ state.extractedReferences # PreviousResult.references

\* C32 witness: the second run of version 2 committed a result that has no
\* references, and the list of the earlier run is gone
C32_Witness ==
    /\ version = 2
    /\ an.pc = "done" /\ an.result.ok
    /\ "references" \notin DOMAIN an.result.value
    /\ state.extractedReferences = "[]"
    /\ state.paperTitle # "T0"
    /\ Len(state.chatHistory) = 2

----------------------------------------------------------------------------
(* Claims about the section collection, checked under SpecEditor *)

\* C33: the section collection holds one section per section kind, nine of
\* them, each with its kind as id, in the order of INITIAL_SECTIONS.
C33_SectionsKeepKindsAndOrder ==
    /\ Len(state.sections) = 9
    /\ Len(state.sections) = Len(INITIAL_SECTIONS)
    /\ \A i \in 1..Len(state.sections) :
          /\ state.sections[i].id = INITIAL_SECTIONS[i]
          /\ state.sections[i].type = INITIAL_SECTIONS[i]
    /\ \A i, j \in 1..Len(state.sections) :
          state.sections[i].id = state.sections[j].id => i = j

\* C33 witness: the analysis has committed its title, a draft is in flight for
\* one section and a transform for a section that has content
C33_Witness ==
    /\ state.paperTitle # ""
    /\ state.sections[1].content # <<>>
    /\ \E i \in 2..Len(state.sections) : state.sections[i].isGenerating
    /\ \E i \in 2..Len(state.sections) : state.sections[i].content # <<>>
    /\ Len(tools) > 0

----------------------------------------------------------------------------
(* Claims about the growth of the chat log, checked under SpecChat *)

\* C34: every step of the session leaves the chat log as it was or appends to
\* it: the log before the step is a prefix of the log after it.
C34_ChatLogIsAppendOnly ==
    [][StartsWith(state'.chatHistory, state.chatHistory)]_vars

\* C34 witness: an analysis was in flight while the user asked; the reply was
\* appended first, then the greeting of the analysis
C34_Witness ==
    /\ Len(state.chatHistory) = 3
    /\ state.chatHistory[1].role = "user"
    /\ 2 \in ReplyTurns(state.chatHistory)
    /\ state.chatHistory[3].role = "model"
    /\ state.chatHistory[3].text # <<>>
    /\ state.chatHistory[3].text[1] = AnalysisGreeting

\* the other order: the greeting of the analysis between the question and
\* its reply
C34_GreetingBeforeReply ==
    /\ Len(state.chatHistory) = 3
    /\ state.chatHistory[1].role = "user"
    /\ state.chatHistory[2].text # <<>>
    /\ state.chatHistory[2].text[1] = AnalysisGreeting
    /\ 3 \in ReplyTurns(state.chatHistory)

----------------------------------------------------------------------------
(* SpecBusy: a session of App (version 2) in which documents are uploaded *)
(* while an analysis runs                                                 *)

InitBusy ==
    /\ version = 2
    /\ gov = GovIdle
    /\ trace = <<>>
    /\ \E fs \in FileListsOfLen(version, 1) :
          /\ fs[1].type = TypePdf
          /\ state = [InitialState EXCEPT !.files = fs]
    /\ an = AnalysisIdle
    /\ analyzing = FALSE
    /\ errorMsg = NoErrorMsg
    /\ lastAlert = ""
    /\ tasks = <<>>
    /\ issued = 0
    /\ chat = ChatIdle
    /\ tools = <<>>
    /\ saved = <<>>
    /\ uploads = <<>>

NextBusy ==
    \/ AppStartResearch
    \/ AppAnalysisSettle
    \/ \E batch \in Batches : HandleFileUpload(batch)
    \/ \E k \in 1..Len(uploads), ok \in BOOLEAN : ReadersSettle(k, ok)

SpecBusy == InitBusy /\ [][NextBusy]_vars

----------------------------------------------------------------------------
(* Claims about the analyzing flag, checked under SpecBusy *)

\* C35: while a run of the analysis is in flight the analyzing flag is true
\* (the flag is what disables the button that starts a run).
C35_BusyWhileAnalysisInFlight ==
    an.pc = "analysis" => analyzing

----------------------------------------------------------------------------
(* SpecRerunFair: SpecRerun where every provider call returns or fails and *)
(* every timer of callWithRetry runs out                                    *)

SpecRerunFair ==
    /\ SpecRerun
    /\ WF_vars(AnalysisSettle)
    /\ WF_vars(AnalysisDelayElapsed)

----------------------------------------------------------------------------
(* Claims about a failed analysis, checked under SpecRerunFair *)

\* a step in which analyzeFilesForNovelty settles with a failure
AnalysisFails == an.pc # "done" /\ an'.pc = "done" /\ ~an'.result.ok

\* C36: the step in which the analysis fails changes nothing of the session
\* (metadata, sections, documents, chat log), shows an error message and
\* clears the analyzing flag; and whenever the analyzing flag is set, on
\* success and on failure alike, it is cleared later.
C36_FailureLeavesSessionUntouched ==
    /\ [][AnalysisFails =>
             /\ state' = state
             /\ errorMsg' # NoErrorMsg
             /\ errorMsg' = ErrorMsgShown(version, an'.result.error)
             /\ ~analyzing']_vars
    /\ (analyzing ~> ~analyzing)

\* C36 witness: the second run has failed: the session is as the earlier run
\* left it, the error is shown and the flag is cleared
C36_Witness ==
    /\ an.pc = "done" /\ ~an.result.ok
    /\ Len(trace) > 0
    /\ state = AnalysedBefore(version)
    /\ state.paperTitle = "T0"
    /\ errorMsg # NoErrorMsg
    /\ ~analyzing

----------------------------------------------------------------------------
(* Claims about transforms and drafts of one section, checked under *)
(* SpecEditor                                                       *)

\* C37: no section has a transform (applyMagicTool, humanizeText) and a
\* drafting task in flight at the same time.
C37_TransformAndDraftExclude ==
    \A i \in 1..Len(state.sections) :
        LET id == state.sections[i].id
        IN  ~(/\ ToolsOf(tools, id) # {}
              /\ \E k \in 1..Len(tasks) : tasks[k].id = id)

----------------------------------------------------------------------------
(* Claims about the documents an upload adds, checked under SpecUpload *)

\* C38: an upload adds each of its files to the document list once, after
\* the documents that are there: a reader of version 1 that has loaded its
\* file appends that file and nothing else, and the readers of version 2,
\* all loaded, append the k files of the batch.
C38_UploadAddsEachFileOnce ==
    [][/\ \A k \in 1..Len(uploads) : \A i \in 1..MaxBatch :
             ReaderLoaded(k, i, TRUE) =>
                state'.files =
                    Append(state.files, ReadFileAsData(uploads[k].files[i]))
       /\ \A k \in 1..Len(uploads) :
             ReadersSettle(k, TRUE) =>
                /\ Len(state'.files) = Len(state.files) + Len(uploads[k].files)
                /\ StartsWith(state'.files, state.files)]_vars

----------------------------------------------------------------------------
(* SpecWork: one run of analyzeFilesForNovelty (version 2) over one PDF, *)
(* analysed directly, or over the fewest PDFs that are summarised first; *)
(* every provider call returns or fails and every timer runs out         *)

InitWork ==
    /\ version = 2
    /\ gov = GovIdle
    /\ trace = <<>>
    /\ \E n \in {1, MapReduceThreshold + 1} :
       \E fs \in FileListsOfLen(version, n) :
          /\ \A i \in 1..n : fs[i].type = TypePdf
          /\ state = [InitialState EXCEPT !.files = fs]
    /\ an = AnalysisIdle
    /\ analyzing = FALSE
    /\ errorMsg = NoErrorMsg
    /\ lastAlert = ""
    /\ tasks = <<>>
    /\ issued = 0
    /\ chat = ChatIdle
    /\ tools = <<>>
    /\ saved = <<>>
    /\ uploads = <<>>

\* the steps of a run that has started: at most one of them is enabled
RunStep ==
    \/ SummarizeSettle
    \/ PauseElapsed
    \/ AnalysisSettle
    \/ AnalysisDelayElapsed

SpecWork == InitWork /\ [][NextAnalysis]_vars /\ WF_vars(RunStep)

----------------------------------------------------------------------------
(* Claims about the work of one analysis, checked under SpecWork *)

\* the provider calls one run of analyzeFilesForNovelty has started
WorkWithinBounds ==
    /\ Cardinality(SummarizeIssues) <= Len(state.files)
    /\ \A j \in 1..Len(state.files) : Cardinality(SummarizeIssuesOf(j)) <= 1
    /\ Cardinality(AnalysisIssues("pro")) <= 4
    /\ Cardinality(AnalysisIssues("flash")) <= 4
    /\ EventsAt(trace, "issue") =
          SummarizeIssues \cup AnalysisIssues("pro") \cup AnalysisIssues("flash")

\* C39: one run of analyzeFilesForNovelty over N documents starts at most N
\* summarization calls, at most 4 analysis calls to the preferred tier and at
\* most 4 to the fallback tier, and a run that has started ends, with a
\* result or with an error.
C39_BoundedWorkPerAnalysis ==
    /\ [](WorkWithinBounds /\ (an.pc = "done" => "ok" \in DOMAIN an.result))
    /\ (an.pc \in {"summarizing", "pause", "analysis"} ~> an.pc = "done")

\* C39 witness: a run over three documents that made every call it can make:
\* three summaries, four calls to each tier, and then threw
C39_Witness ==
    /\ an.pc = "done"
    /\ Len(state.files) = 3
    /\ Cardinality(SummarizeIssues) = 3
    /\ Cardinality(AnalysisIssues("pro")) = 4
    /\ Cardinality(AnalysisIssues("flash")) = 4
    /\ ~an.result.ok

====
